---- MODULE Spec2Model ----
(***************************************************************************)
(* Model of scripts/ai-agent-orchestrator.py: the completion client, the   *)
(* reply interpreter (Agent.analyze), the agent registry and the recursive *)
(* orchestration engine (AgentOrchestrator.orchestrate).                   *)
(*                                                                         *)
(* Text is modelled as a sequence of pieces.  Agent names and feature      *)
(* requests are sequences of one-character strings, so lower() and         *)
(* replace() act on them as they do in Python.  A completion reply is a    *)
(* sequence of tokens (white space, newline, code fence, brace-free text,  *)
(* a stray brace, or the serialisation of a JSON object).                  *)
(***************************************************************************)
EXTENDS Integers, Sequences, FiniteSets, TLC

VARIABLES
    agents,            \* AgentOrchestrator.agents: name -> downstream_agents
    analysis_result,   \* Agent.analysis_result of every registered agent
    feature_request,   \* argument of the current orchestrate call
    pc,                \* "idle", "running", "done" (returned), "raised"
    start_agents,      \* orchestrate: the seed list
    seed_i,            \* orchestrate: position of the for loop over the seeds
    call,              \* pending _analyze_recursive call, <<>> when none
    stack,             \* active _analyze_recursive frames, outermost first
    results,           \* orchestrate: the results dict
    context,           \* orchestrate: the context dict
    calls,             \* completion requests issued so far, in order, each
                       \* with the context of its prompt and whether it succeeded
    edges,             \* recursion depth at which each call_tree entry was made
    interp,            \* one Agent.analyze invocation observed in isolation
    coord,             \* one AgentCoordinator.coordinate call (ai-agent-coordinator.py)
    plan,              \* the log main prints and what extract_json_from_log
                       \* (generate-implementation-plan.py) reads back from it
    replay             \* the caller of orchestrate: the replies it lets the
                       \* completion service give, and what the first of two
                       \* calls on the instance returned

vars == <<agents, analysis_result, feature_request, pc, start_agents, seed_i,
          call, stack, results, context, calls, edges, interp, coord, plan,
          replay>>

(***************************************************************************)
(* Bounds of the model.                                                    *)
(***************************************************************************)
\* number of registry entries kept, in the insertion order of self.agents
MaxAgents == 3
\* tokens of a reply handed to Agent.analyze in isolation
MaxTokens == 3
\* recursion frames explored (never reached by the code: one frame per agent)
MaxDepth == MaxAgents + 2

(***************************************************************************)
(* Strings.                                                                *)
(***************************************************************************)
UpperCase == <<"A", "B", "C", "D", "E", "F", "G", "H", "I", "J", "K", "L", "M",
               "N", "O", "P", "Q", "R", "S", "T", "U", "V", "W", "X", "Y", "Z">>

LowerCase == <<"a", "b", "c", "d", "e", "f", "g", "h", "i", "j", "k", "l", "m",
               "n", "o", "p", "q", "r", "s", "t", "u", "v", "w", "x", "y", "z">>

\* str.lower() on one character
LowerChar(c) ==
    IF \E i \in 1..26 : UpperCase[i] = c
    THEN LowerCase[CHOOSE i \in 1..26 : UpperCase[i] = c]
    ELSE c

\* str.lower()
Lower(s) == [i \in 1..Len(s) |-> LowerChar(s[i])]

\* str.replace(a, b) for one-character a and b
Replace(s, a, b) == [i \in 1..Len(s) |-> IF s[i] = a THEN b ELSE s[i]]

\* w in s  (substring test)
Contains(s, w) ==
    \E i \in 0..(Len(s) - Len(w)) : SubSeq(s, i + 1, i + Len(w)) = w

\* x in list
InList(x, list) == \E i \in 1..Len(list) : list[i] = x

(***************************************************************************)
(* JSON values.  Every value is a record of the same shape so that values  *)
(* of different JSON types can be compared.                                *)
(***************************************************************************)
JBool(x) == [t |-> "bool", b |-> x, n |-> 0, s |-> <<>>]
JNum(k) == [t |-> "num", b |-> FALSE, n |-> k, s |-> <<>>]
JStr(x) == [t |-> "str", b |-> FALSE, n |-> 0, s |-> x]
JList(x) == [t |-> "list", b |-> FALSE, n |-> 0, s |-> x]
JNull == [t |-> "null", b |-> FALSE, n |-> 0, s |-> <<>>]

\* Python truth value of a parsed JSON value
Truthy(v) ==
    CASE v.t = "bool" -> v.b
      [] v.t = "num" -> v.n # 0
      [] v.t = "str" -> v.s # <<>>
      [] v.t = "list" -> v.s # <<>>
      [] OTHER -> FALSE

\* A parsed JSON object: the five named fields that are present, and the
\* needs_<key> entries that are present (indexed by <key>).
EmptyDict == [fields |-> <<>>, needs |-> <<>>]

\* dict.get(key, default) on the named fields
GetField(d, key, default) ==
    IF key \in DOMAIN d.fields THEN d.fields[key] ELSE default

\* dict.get("needs_" + key, default)
GetNeeds(d, key, default) ==
    IF key \in DOMAIN d.needs THEN d.needs[key] ELSE default

(***************************************************************************)
(* Reply tokens.                                                           *)
(***************************************************************************)
Tok(kind) == [k |-> kind, body |-> EmptyDict]
ObjTok(d) == [k |-> "obj", body |-> d]

IsSpace(tok) == tok.k \in {"ws", "nl"}
HasOpen(tok) == tok.k \in {"lb", "obj"}
HasClose(tok) == tok.k \in {"rb", "obj"}

\* str.strip()
Strip(text) ==
    IF \A i \in 1..Len(text) : IsSpace(text[i]) THEN <<>>
    ELSE LET first == CHOOSE i \in 1..Len(text) :
                          /\ ~IsSpace(text[i])
                          /\ \A j \in 1..(i - 1) : IsSpace(text[j])
             last == CHOOSE i \in 1..Len(text) :
                          /\ ~IsSpace(text[i])
                          /\ \A j \in (i + 1)..Len(text) : IsSpace(text[j])
         IN  SubSeq(text, first, last)

RECURSIVE SplitLines(_)
\* str.split('\n')
SplitLines(text) ==
    IF \A i \in 1..Len(text) : text[i].k # "nl" THEN <<text>>
    ELSE LET p == CHOOSE i \in 1..Len(text) :
                      /\ text[i].k = "nl"
                      /\ \A j \in 1..(i - 1) : text[j].k # "nl"
         IN  <<SubSeq(text, 1, p - 1)>> \o SplitLines(SubSeq(text, p + 1, Len(text)))

RECURSIVE JoinLines(_)
\* '\n'.join(lines)
JoinLines(lines) ==
    IF lines = <<>> THEN <<>>
    ELSE IF Len(lines) = 1 THEN lines[1]
    ELSE lines[1] \o <<Tok("nl")>> \o JoinLines(Tail(lines))

\* str.startswith('```')
StartsWithFence(text) == text # <<>> /\ text[1].k \in {"fence", "fencelang"}

\* the removal of the markdown code fences
StripFences(cleaned) ==
    IF StartsWithFence(cleaned)
    THEN LET lines0 == SplitLines(cleaned)
             lines1 == IF StartsWithFence(lines0[1]) THEN Tail(lines0) ELSE lines0
             lines2 == IF /\ lines1 # <<>>
                          /\ Strip(lines1[Len(lines1)]) = <<Tok("fence")>>
                       THEN SubSeq(lines1, 1, Len(lines1) - 1)
                       ELSE lines1
         IN  JoinLines(lines2)
    ELSE cleaned

\* cleaned.find('{'): token position, 0 when absent
FindOpen(text) ==
    IF \E i \in 1..Len(text) : HasOpen(text[i])
    THEN CHOOSE i \in 1..Len(text) :
             HasOpen(text[i]) /\ \A j \in 1..(i - 1) : ~HasOpen(text[j])
    ELSE 0

\* the position of the first closing brace instead of the last
RFindClose_First(text) ==
    IF \E i \in 1..Len(text) : HasClose(text[i])
    THEN CHOOSE i \in 1..Len(text) :
             HasClose(text[i]) /\ \A j \in 1..(i - 1) : ~HasClose(text[j])
    ELSE 0

\* cleaned.rfind('}'): token position, 0 when absent
RFindClose(text) ==
    IF \E i \in 1..Len(text) : HasClose(text[i])
    THEN CHOOSE i \in 1..Len(text) :
             HasClose(text[i]) /\ \A j \in (i + 1)..Len(text) : ~HasClose(text[j])
    ELSE 0

\* start >= 0 and end > start
BracePairFound(text) ==
    FindOpen(text) > 0 /\ RFindClose(text) >= FindOpen(text)

\* cleaned[start:end]
JsonStr(text) == SubSeq(text, FindOpen(text), RFindClose(text))

\* json.loads succeeds: one object, or an empty pair of braces
JsonValid(js) ==
    \/ Len(js) = 1 /\ js[1].k = "obj"
    \/ /\ Len(js) >= 2
       /\ js[1].k = "lb"
       /\ js[Len(js)].k = "rb"
       /\ \A i \in 2..(Len(js) - 1) : IsSpace(js[i])

\* json.loads of a valid slice
JsonLoads(js) == IF js[1].k = "obj" THEN js[1].body ELSE EmptyDict

(***************************************************************************)
(* Agent: key derivation, the default record and the reply interpreter.    *)
(***************************************************************************)
\* the key Agent.analyze derives, with the spaces replaced only
NeedsKeyAgent_NoDash(name) == Replace(Lower(name), " ", "_")

\* the key suffix Agent.analyze and _create_default_analysis guarantee:
\* agent.lower().replace(' ', '_').replace('-', '_')
NeedsKeyAgent(name) == Replace(Replace(Lower(name), " ", "_"), "-", "_")

\* the key suffix read without lower-casing the name
NeedsKeyEngine_NoLower(name) == Replace(name, "-", "_")

\* the key suffix _analyze_recursive reads: lower().replace('-', '_')
NeedsKeyEngine(name) == Replace(Lower(name), "-", "_")

\* the key of the analyses map taken from the name without its last character
AnalysesKey_NoDigit(name) ==
    Replace(Lower(SubSeq(name, 1, Len(name) - 1)), "-", "_")

\* the key of the analyses map: agent_name.lower().replace("-", "_")
AnalysesKey(name) == Replace(Lower(name), "-", "_")

\* the needs_ keys of a downstream list, as Agent.analyze derives them
DeclaredKeys(downstream) ==
    {NeedsKeyAgent(downstream[i]) : i \in 1..Len(downstream)}

RequiredKeys == {"impact", "components", "changes", "effort_hours", "risks"}

\* the back-filled value, the effort left as None
BackfillValue_NullEffort(key) ==
    IF key = "effort_hours" THEN JNull
    ELSE IF key \in {"components", "changes", "risks"} THEN JList(<<>>)
    ELSE JStr(<<"Not provided">>)

\* the default Agent.analyze fills in for a missing required key
BackfillValue(key) ==
    IF key = "effort_hours" THEN JNum(0)
    ELSE IF key \in {"components", "changes", "risks"} THEN JList(<<>>)
    ELSE JStr(<<"Not provided">>)

\* the default record without the flags of the downstream agents
CreateDefaultAnalysis_NoFlags(downstream, request) ==
    [fields |-> [key \in RequiredKeys |->
                    CASE key = "impact" -> JStr(<<"Analyzing impact of: ">> \o request)
                      [] key = "components" -> JList(<<"Unknown">>)
                      [] key = "changes" -> JList(<<"Analysis needed">>)
                      [] key = "effort_hours" -> JNum(0)
                      [] OTHER -> JList(<<"AI analysis unavailable">>)],
     needs |-> <<>>]

\* the default record with every downstream flag set
CreateDefaultAnalysis_AllNeeded(downstream, request) ==
    [fields |-> [key \in RequiredKeys |->
                    CASE key = "impact" -> JStr(<<"Analyzing impact of: ">> \o request)
                      [] key = "components" -> JList(<<"Unknown">>)
                      [] key = "changes" -> JList(<<"Analysis needed">>)
                      [] key = "effort_hours" -> JNum(0)
                      [] OTHER -> JList(<<"AI analysis unavailable">>)],
     needs |-> [key \in DeclaredKeys(downstream) |-> JBool(TRUE)]]

\* Agent._create_default_analysis
CreateDefaultAnalysis(downstream, request) ==
    [fields |-> [key \in RequiredKeys |->
                    CASE key = "impact" -> JStr(<<"Analyzing impact of: ">> \o request)
                      [] key = "components" -> JList(<<"Unknown">>)
                      [] key = "changes" -> JList(<<"Analysis needed">>)
                      [] key = "effort_hours" -> JNum(0)
                      [] OTHER -> JList(<<"AI analysis unavailable">>)],
     needs |-> [key \in DeclaredKeys(downstream) |-> JBool(FALSE)]]

\* the back-filling, setting every declared flag to False unconditionally
FillParsed_Overwrite(parsed, downstream) ==
    [fields |-> [key \in (DOMAIN parsed.fields) \cup RequiredKeys |->
                    IF key \in DOMAIN parsed.fields
                    THEN parsed.fields[key]
                    ELSE BackfillValue(key)],
     needs |-> [key \in (DOMAIN parsed.needs) \cup DeclaredKeys(downstream) |->
                    IF key \in DeclaredKeys(downstream)
                    THEN JBool(FALSE)
                    ELSE parsed.needs[key]]]

\* the validation and back-filling of a parsed object
FillParsed(parsed, downstream) ==
    [fields |-> [key \in (DOMAIN parsed.fields) \cup RequiredKeys |->
                    IF key \in DOMAIN parsed.fields
                    THEN parsed.fields[key]
                    ELSE BackfillValue(key)],
     needs |-> [key \in (DOMAIN parsed.needs) \cup DeclaredKeys(downstream) |->
                    IF key \in DOMAIN parsed.needs
                    THEN parsed.needs[key]
                    ELSE JBool(FALSE)]]

\* an except clause that names another exception
Handled_KeyErrorOnly(exception) == exception = "KeyError"

\* except json.JSONDecodeError: the exceptions Agent.analyze handles
Handled(exception) == exception = "JSONDecodeError"

\* Agent.analyze, from the raw response on: the returned record, whether it
\* was parsed (only then self.analysis_result is assigned), and whether an
\* exception left the method instead
Analyze(downstream, request, response) ==
    LET cleaned == StripFences(Strip(response))
    IN  IF BracePairFound(cleaned)
        THEN IF JsonValid(JsonStr(cleaned))
             THEN [raised |-> FALSE, parsed |-> TRUE,
                   analysis |-> FillParsed(JsonLoads(JsonStr(cleaned)), downstream)]
             ELSE IF Handled("JSONDecodeError")
             THEN [raised |-> FALSE, parsed |-> FALSE,
                   analysis |-> CreateDefaultAnalysis(downstream, request)]
             ELSE [raised |-> TRUE, parsed |-> FALSE, analysis |-> EmptyDict]
        ELSE [raised |-> FALSE, parsed |-> FALSE,
              analysis |-> CreateDefaultAnalysis(downstream, request)]

\* the reply text, whatever the status of the reply
Generate_IgnoreStatus(outcome) == outcome.text

\* OllamaClient.generate: the reply text, or "" on any failure
Generate(outcome) == IF outcome.ok THEN outcome.text ELSE <<>>

(***************************************************************************)
(* The agent registry.                                                     *)
(***************************************************************************)
AgentName(letter, digit) == <<"A", "g", "e", "n", "t", "-", letter, digit>>

\* insertion order of self.agents
AgentOrder ==
    <<AgentName("A", "1"), AgentName("A", "2"), AgentName("B", "1"),
      AgentName("B", "2"), AgentName("B", "3"), AgentName("B", "4"),
      AgentName("C", "1"), AgentName("C", "2"), AgentName("C", "3"),
      AgentName("C", "4"), AgentName("C", "5")>>

\* downstream_agents of the agents, in the order of AgentOrder
BuiltinDownstream ==
    << <<AgentName("B", "1"), AgentName("B", "2")>>,
       <<AgentName("B", "1"), AgentName("B", "3"), AgentName("B", "4")>>,
       <<AgentName("B", "3"), AgentName("B", "4"), AgentName("B", "2")>>,
       <<AgentName("C", "1"), AgentName("C", "2")>>,
       <<>>,
       <<>>,
       <<AgentName("C", "2")>>,
       <<AgentName("C", "3"), AgentName("C", "4"), AgentName("C", "5")>>,
       <<>>,
       <<AgentName("C", "3")>>,
       <<AgentName("C", "3")>> >>

\* the agents kept: the first MaxAgents entries of the registry
KeptNames ==
    {AgentOrder[i] : i \in 1..(IF MaxAgents < Len(AgentOrder)
                               THEN MaxAgents ELSE Len(AgentOrder))}

\* [x for x in list if x in names]
SelectNames(list, names) == SelectSeq(list, LAMBDA x : x \in names)

\* the registry on the agents kept: every agent with the downstream agents
\* that are kept too, in their declared order
Registry ==
    [name \in KeptNames |->
        SelectNames(BuiltinDownstream[CHOOSE i \in 1..Len(AgentOrder) :
                                          AgentOrder[i] = name],
                    KeptNames)]

\* the last agent kept
LastKept == AgentOrder[Cardinality(KeptNames)]

\* a name no registry entry has
DanglingName == AgentName("Z", "9")

\* a misconfigured registry: one more downstream edge
AddEdge(reg, from, to) == [reg EXCEPT ![from] = Append(@, to)]

\* a misconfigured registry: one more downstream edge, tried first
AddFirstEdge(reg, from, to) == [reg EXCEPT ![from] = <<to>> \o @]

\* the registry, and its misconfigurations by an edge from the last agent
\* kept: a self-loop, an edge back to an agent that reaches it (a cycle),
\* and an edge to a name that is not registered; and by an unregistered
\* name at the head of the first agent's downstream list
Registries ==
    {Registry}
    \cup {AddEdge(Registry, LastKept, y) : y \in KeptNames \cup {DanglingName}}
    \cup {AddFirstEdge(Registry, AgentOrder[1], DanglingName)}

(***************************************************************************)
(* Feature requests and seed selection.                                    *)
(***************************************************************************)
KeywordsA1 ==
    { <<"m", "o", "b", "i", "l", "e">>, <<"a", "p", "p">>, <<"u", "s", "e", "r">>,
      <<"c", "u", "s", "t", "o", "m", "e", "r">>,
      <<"b", "o", "o", "k", "i", "n", "g">> }

KeywordsA2 ==
    { <<"s", "t", "a", "f", "f">>, <<"a", "d", "m", "i", "n">>,
      <<"f", "l", "e", "e", "t">>, <<"r", "e", "p", "o", "r", "t">>,
      <<"d", "a", "s", "h", "b", "o", "a", "r", "d">> }

\* the start_agents list without the fallback to both entry agents
StartAgents_NoFallback(request) ==
    (IF \E w \in KeywordsA1 : Contains(Lower(request), w)
     THEN <<AgentName("A", "1")>> ELSE <<>>)
    \o (IF \E w \in KeywordsA2 : Contains(Lower(request), w)
        THEN <<AgentName("A", "2")>> ELSE <<>>)

\* the start_agents list, matching the keywords against the request as typed
StartAgents_NoLower(request) ==
    LET a1 == IF \E w \in KeywordsA1 : Contains(request, w)
              THEN <<AgentName("A", "1")>> ELSE <<>>
        a2 == IF \E w \in KeywordsA2 : Contains(request, w)
              THEN <<AgentName("A", "2")>> ELSE <<>>
    IN  IF a1 \o a2 = <<>>
        THEN <<AgentName("A", "1"), AgentName("A", "2")>>
        ELSE a1 \o a2

\* orchestrate: the start_agents list
StartAgents(request) ==
    LET a1 == IF \E w \in KeywordsA1 : Contains(Lower(request), w)
              THEN <<AgentName("A", "1")>> ELSE <<>>
        a2 == IF \E w \in KeywordsA2 : Contains(Lower(request), w)
              THEN <<AgentName("A", "2")>> ELSE <<>>
    IN  IF a1 \o a2 = <<>>
        THEN <<AgentName("A", "1"), AgentName("A", "2")>>
        ELSE a1 \o a2

\* the feature requests explored
FeatureRequests ==
    { <<"u", "s", "e", "r">>, <<"F", "l", "e", "e", "t">>, <<"h", "i">>,
      <<"a", "p", "p", " ", "s", "t", "a", "f", "f">> }

(***************************************************************************)
(* The completion service: the outcomes one request can have.              *)
(***************************************************************************)
\* efforts and flags of the type the prompt asks for
EffortValues == {JNum(2), JNum(3)}

FlagValues == {JBool(TRUE), JBool(FALSE)}

\* the five fields of an object reply with the given effort
FieldsWith(effort) ==
    [key \in RequiredKeys |->
        CASE key = "impact" -> JStr(<<"impact text">>)
          [] key = "effort_hours" -> effort
          [] OTHER -> JList(<<"item">>)]

\* object replies that follow the prompt: the five fields and a boolean for
\* every flag asked for
WellTypedObjects(downstream) ==
    {[fields |-> FieldsWith(e), needs |-> n] :
        e \in EffortValues, n \in [DeclaredKeys(downstream) -> FlagValues]}

\* object replies that carry a value of another type: the effort as a
\* string, or every flag as the string "false"
IllTypedObjects(downstream) ==
    {[fields |-> FieldsWith(JStr(<<"8">>)),
      needs |-> [key \in DeclaredKeys(downstream) |-> JBool(FALSE)]],
     [fields |-> FieldsWith(JNum(3)),
      needs |-> [key \in DeclaredKeys(downstream) |-> JStr(<<"false">>)]]}

\* the needs_ keys of every agent name of the constructor and of the
\* unregistered name
AllNeedsKeys ==
    {NeedsKeyAgent(AgentOrder[i]) : i \in 1..Len(AgentOrder)}
    \cup {NeedsKeyAgent(DanglingName)}

\* an object reply that asks for none of the downstream agents and for every
\* other agent: flags the prompt did not ask for
UndeclaredObject(downstream) ==
    [fields |-> FieldsWith(JNum(2)),
     needs |-> [key \in AllNeedsKeys |->
                   JBool(key \notin DeclaredKeys(downstream))]]

RunObjects(downstream) ==
    WellTypedObjects(downstream) \cup IllTypedObjects(downstream)
    \cup {UndeclaredObject(downstream)}

\* the body of a reply with a non-success status: an object asking for
\* every downstream agent
ErrorBody(downstream) ==
    [fields |-> FieldsWith(JNum(2)),
     needs |-> [key \in DeclaredKeys(downstream) |-> JBool(TRUE)]]

\* transport failure, a non-success status with a body, empty text, text
\* without an object, an unparsable object, or a parseable object
RunOutcomes(downstream) ==
    {[ok |-> FALSE, text |-> <<>>],
     [ok |-> FALSE, text |-> <<ObjTok(ErrorBody(downstream))>>],
     [ok |-> TRUE, text |-> <<>>],
     [ok |-> TRUE, text |-> <<Tok("txt")>>],
     [ok |-> TRUE, text |-> <<Tok("lb"), Tok("txt"), Tok("rb")>>]}
    \cup {[ok |-> TRUE, text |-> <<ObjTok(d)>>] : d \in RunObjects(downstream)}

(***************************************************************************)
(* AgentOrchestrator.orchestrate and _analyze_recursive.                   *)
(***************************************************************************)
NoResult == [is_set |-> FALSE, value |-> EmptyDict]

NoInterp ==
    [name |-> <<>>, request |-> <<>>, response |-> <<>>, state |-> "none",
     parsed |-> FALSE, result |-> EmptyDict]

\* no coordinate call made
NoCoord ==
    [pc |-> "idle", feature_request |-> <<>>, agents_involved |-> <<>>,
     analyses |-> <<>>, calls |-> <<>>, total_effort_hours |-> 0]

\* main has printed nothing and no log has been read
NoPlan == [pc |-> "idle", log |-> <<>>, found |-> FALSE, data |-> <<>>]

\* no replies laid down and no earlier call
NoReplay ==
    [run |-> 1, script |-> <<>>, first_pc |-> "none",
     first |-> [feature_request |-> <<>>, agents_involved |-> <<>>,
                analyses |-> <<>>, call_tree |-> <<>>],
     first_calls |-> 0]

\* a dict rebuilt with the one entry
Put_Fresh(dict, key, value) == [k \in {key} |-> value]

\* dict[key] = value
Put(dict, key, value) ==
    [k \in (DOMAIN dict) \cup {key} |-> IF k = key THEN value ELSE dict[k]]

\* the visited test, comparing with the agent analysed last only
Visited_LastOnly(name, involved) ==
    involved # <<>> /\ involved[Len(involved)] = name

\* the visited test, never finding the agent
Visited_Never(name, involved) == FALSE

\* agent_name in results["agents_involved"]
Visited(name, involved) == InList(name, involved)

\* the level of a downstream call, not incremented
NextLevel_Same(level) == level

\* the level of a downstream call
NextLevel(level) == level + 1

\* a value sum() can add to a number
Numeric(v) == v.t \in {"num", "bool"}

NumValue(v) == IF v.t = "bool" THEN (IF v.b THEN 1 ELSE 0) ELSE v.n

RECURSIVE SumOver(_, _)
SumOver(analyses, keys) ==
    IF keys = {} THEN 0
    ELSE LET k == CHOOSE x \in keys : TRUE
         IN  NumValue(GetField(analyses[k], "effort_hours", JNum(0)))
             + SumOver(analyses, keys \ {k})

RECURSIVE SumOver_Effort(_, _)
SumOver_Effort(analyses, keys) ==
    IF keys = {} THEN 0
    ELSE LET k == CHOOSE x \in keys : TRUE
         IN  NumValue(GetField(analyses[k], "effort", JNum(0)))
             + SumOver_Effort(analyses, keys \ {k})

\* the sum, reading the key "effort" instead of "effort_hours"
TotalEffort_WrongKey(analyses) == SumOver_Effort(analyses, DOMAIN analyses)

\* sum(analysis.get("effort_hours", 0) for analysis in analyses.values())
TotalEffort(analyses) == SumOver(analyses, DOMAIN analyses)

\* the sum raises TypeError
SumRaises(analyses) ==
    \E k \in DOMAIN analyses :
        ~Numeric(GetField(analyses[k], "effort_hours", JNum(0)))

Top == stack[Len(stack)]

\* orchestrate, keeping the results dict of the call before
Orchestrate_KeepResults(request) ==
    /\ pc = "idle"
    /\ feature_request' = request
    /\ results' = [results EXCEPT !.feature_request = request]
    /\ start_agents' = StartAgents(request)
    /\ context' = <<>>
    /\ seed_i' = 1
    /\ pc' = "running"
    /\ UNCHANGED <<agents, analysis_result, call, stack, calls, edges, interp,
                   coord, plan, replay>>

\* orchestrate, up to the loop over the seeds
Orchestrate(request) ==
    /\ pc = "idle"
    /\ feature_request' = request
    /\ results' = [feature_request |-> request, agents_involved |-> <<>>,
                   analyses |-> <<>>, call_tree |-> <<>>]
    /\ start_agents' = StartAgents(request)
    /\ context' = <<>>
    /\ seed_i' = 1
    /\ pc' = "running"
    /\ UNCHANGED <<agents, analysis_result, call, stack, calls, edges, interp,
                   coord, plan, replay>>

\* for agent_name in start_agents: self._analyze_recursive(..., level=0)
SeedLoop ==
    /\ pc = "running"
    /\ stack = <<>>
    /\ call = <<>>
    /\ seed_i <= Len(start_agents)
    /\ call' = <<[agent_name |-> start_agents[seed_i], level |-> 0]>>
    /\ seed_i' = seed_i + 1
    /\ UNCHANGED <<agents, analysis_result, feature_request, pc, start_agents,
                   stack, results, context, calls, edges, interp, coord, plan,
                   replay>>

\* the lookup of an unregistered name raising KeyError
NotFound_KeyError ==
    /\ pc = "running"
    /\ call # <<>>
    /\ call[1].agent_name \notin DOMAIN agents
    /\ call' = <<>>
    /\ pc' = "raised"
    /\ UNCHANGED <<agents, analysis_result, feature_request, start_agents,
                   seed_i, stack, results, context, calls, edges, interp,
                   coord, plan, replay>>

\* _analyze_recursive: the agent is not in the registry
NotFound ==
    /\ pc = "running"
    /\ call # <<>>
    /\ call[1].agent_name \notin DOMAIN agents
    /\ call' = <<>>
    /\ UNCHANGED <<agents, analysis_result, feature_request, pc, start_agents,
                   seed_i, stack, results, context, calls, edges,
                   interp, coord, plan, replay>>

\* _analyze_recursive: the agent was already analysed
Skip ==
    /\ pc = "running"
    /\ call # <<>>
    /\ call[1].agent_name \in DOMAIN agents
    /\ Visited(call[1].agent_name, results.agents_involved)
    /\ call' = <<>>
    /\ UNCHANGED <<agents, analysis_result, feature_request, pc, start_agents,
                   seed_i, stack, results, context, calls, edges,
                   interp, coord, plan, replay>>

\* agent.analyze(feature_request, context) and the recording of its record
RecordAnalysis(outcome) ==
    /\ LET name == call[1].agent_name
           r == Analyze(agents[name], feature_request, Generate(outcome))
       IN  /\ calls' = Append(calls, [agent |-> name, context |-> context,
                                      ok |-> outcome.ok])
           /\ analysis_result' =
                  IF r.parsed
                  THEN [analysis_result EXCEPT
                            ![name] = [is_set |-> TRUE, value |-> r.analysis]]
                  ELSE analysis_result
           /\ results' =
                  [results EXCEPT
                      !.agents_involved = Append(@, name),
                      !.analyses = Put(@, AnalysesKey(name), r.analysis),
                      !.call_tree = Append(@, [agent |-> name,
                                                level |-> call[1].level])]
           /\ context' = Put(context, name, r.analysis)
           /\ stack' = Append(stack, [agent_name |-> name,
                                      level |-> call[1].level,
                                      analysis |-> r.analysis,
                                      i |-> 1])
           /\ edges' = Append(edges, Len(stack))
           /\ pc' = IF r.raised THEN "raised" ELSE pc
    /\ call' = <<>>
    /\ UNCHANGED <<agents, feature_request, start_agents, seed_i, interp, coord,
                   plan, replay>>

\* _analyze_recursive: the agent is registered and not yet analysed
AnalyzeAgent ==
    /\ pc = "running"
    /\ call # <<>>
    /\ call[1].agent_name \in DOMAIN agents
    /\ ~Visited(call[1].agent_name, results.agents_involved)
    /\ Len(stack) < MaxDepth
    /\ \E outcome \in RunOutcomes(agents[call[1].agent_name]) :
           RecordAnalysis(outcome)

\* the test of the downstream loop, satisfied by any flag of the record
FlagNeeded_AnyFlag(frame) ==
    \E key \in DOMAIN frame.analysis.needs : Truthy(frame.analysis.needs[key])

\* the flag _analyze_recursive reads for the downstream agent in turn
FlagNeeded(frame) ==
    Truthy(GetNeeds(frame.analysis,
                    NeedsKeyEngine(agents[frame.agent_name][frame.i]),
                    JBool(FALSE)))

\* for downstream_agent in agent.downstream_agents: the flag is set
DownstreamNeeded ==
    /\ pc = "running"
    /\ call = <<>>
    /\ stack # <<>>
    /\ Top.i <= Len(agents[Top.agent_name])
    /\ FlagNeeded(Top)
    /\ call' = <<[agent_name |-> agents[Top.agent_name][Top.i],
                  level |-> NextLevel(Top.level)]>>
    /\ stack' = [stack EXCEPT ![Len(stack)].i = @ + 1]
    /\ UNCHANGED <<agents, analysis_result, feature_request, pc, start_agents,
                   seed_i, results, context, calls, edges, interp, coord,
                   plan, replay>>

\* for downstream_agent in agent.downstream_agents: the flag is not set
DownstreamNotNeeded ==
    /\ pc = "running"
    /\ call = <<>>
    /\ stack # <<>>
    /\ Top.i <= Len(agents[Top.agent_name])
    /\ ~FlagNeeded(Top)
    /\ stack' = [stack EXCEPT ![Len(stack)].i = @ + 1]
    /\ UNCHANGED <<agents, analysis_result, feature_request, pc, start_agents,
                   seed_i, call, results, context, calls, edges,
                   interp, coord, plan, replay>>

\* _analyze_recursive returns after its loop
Return ==
    /\ pc = "running"
    /\ call = <<>>
    /\ stack # <<>>
    /\ Top.i > Len(agents[Top.agent_name])
    /\ stack' = SubSeq(stack, 1, Len(stack) - 1)
    /\ UNCHANGED <<agents, analysis_result, feature_request, pc, start_agents,
                   seed_i, call, results, context, calls, edges,
                   interp, coord, plan, replay>>

\* orchestrate: the total is computed and the results are returned
Finish ==
    /\ pc = "running"
    /\ call = <<>>
    /\ stack = <<>>
    /\ seed_i > Len(start_agents)
    /\ ~SumRaises(results.analyses)
    /\ results' = [feature_request |-> results.feature_request,
                   agents_involved |-> results.agents_involved,
                   analyses |-> results.analyses,
                   call_tree |-> results.call_tree,
                   total_effort_hours |-> TotalEffort(results.analyses)]
    /\ pc' = "done"
    /\ UNCHANGED <<agents, analysis_result, feature_request, start_agents,
                   seed_i, call, stack, context, calls, edges,
                   interp, coord, plan, replay>>

\* orchestrate: sum() raises TypeError and no result is returned
FinishRaise ==
    /\ pc = "running"
    /\ call = <<>>
    /\ stack = <<>>
    /\ seed_i > Len(start_agents)
    /\ SumRaises(results.analyses)
    /\ pc' = "raised"
    /\ UNCHANGED <<agents, analysis_result, feature_request, start_agents,
                   seed_i, call, stack, results, context, calls, edges, interp,
                   coord, plan, replay>>

Init ==
    /\ agents \in Registries
    /\ analysis_result = [name \in DOMAIN agents |-> NoResult]
    /\ feature_request = <<>>
    /\ pc = "idle"
    /\ start_agents = <<>>
    /\ seed_i = 1
    /\ call = <<>>
    /\ stack = <<>>
    /\ results = [feature_request |-> <<>>, agents_involved |-> <<>>,
                  analyses |-> <<>>, call_tree |-> <<>>]
    /\ context = <<>>
    /\ calls = <<>>
    /\ edges = <<>>
    /\ interp = NoInterp
    /\ coord = NoCoord
    /\ plan = NoPlan
    /\ replay = NoReplay

Next ==
    \/ \E request \in FeatureRequests : Orchestrate(request)
    \/ SeedLoop
    \/ NotFound
    \/ Skip
    \/ AnalyzeAgent
    \/ DownstreamNeeded
    \/ DownstreamNotNeeded
    \/ Return
    \/ Finish
    \/ FinishRaise

Spec == Init /\ [][Next]_vars

(***************************************************************************)
(* Agent.analyze in isolation: one agent of the built-in registry, one     *)
(* feature request and one reply text.                                     *)
(***************************************************************************)
\* the built-in registry, whole
FullRegistry ==
    [name \in {AgentOrder[i] : i \in 1..Len(AgentOrder)} |->
        BuiltinDownstream[CHOOSE i \in 1..Len(AgentOrder) : AgentOrder[i] = name]]

\* agents with zero, one, two and three downstream agents
AnalyzeNames ==
    {AgentName("B", "3"), AgentName("C", "1"), AgentName("A", "1"),
     AgentName("A", "2")}

\* the five fields with well-typed values
AllFields ==
    [key \in RequiredKeys |->
        CASE key = "impact" -> JStr(<<"impact text">>)
          [] key = "effort_hours" -> JNum(3)
          [] OTHER -> JList(<<"item">>)]

\* f without key
Without(f, key) == [k \in (DOMAIN f) \ {key} |-> f[k]]

\* the JSON objects a reply may hold
TestObjects(downstream) ==
    {[fields |-> AllFields,
      needs |-> [key \in DeclaredKeys(downstream) |-> JBool(TRUE)]],
     [fields |-> Without(AllFields, "risks"), needs |-> <<>>],
     [fields |-> [key \in {"effort_hours"} |-> JStr(<<"8">>)],
      needs |-> [key \in DeclaredKeys(downstream) |-> JStr(<<"false">>)]],
     [fields |-> <<>>,
      needs |-> [key \in {NeedsKeyAgent(DanglingName)} |-> JBool(TRUE)]],
     [fields |-> AllFields,
      needs |-> [key \in {NeedsKeyAgent(downstream[i]) :
                              i \in 1..(IF downstream = <<>> THEN 0 ELSE 1)} |->
                    JBool(FALSE)]]}

TestTokens(downstream) ==
    {Tok(kind) : kind \in {"ws", "nl", "fence", "fencelang", "txt", "lb", "rb"}}
    \cup {ObjTok(d) : d \in TestObjects(downstream)}

\* replies wrapped in a markdown code fence
FencedTexts(downstream) ==
    UNION {{<<Tok("fencelang"), Tok("nl"), ObjTok(d), Tok("nl"), Tok("fence")>>,
            <<Tok("fence"), Tok("nl"), ObjTok(d), Tok("nl"), Tok("fence"), Tok("nl")>>,
            <<Tok("fence"), Tok("nl"), ObjTok(d), Tok("nl"), Tok("fence"), Tok("txt")>>} :
           d \in TestObjects(downstream)}

TestTexts(downstream) ==
    UNION {[1..n -> TestTokens(downstream)] : n \in 0..MaxTokens}
    \cup FencedTexts(downstream)

\* the feature requests handed to Agent.analyze in isolation
AnalyzeRequests == { <<"u", "s", "e", "r">>, <<"h", "i">> }

AnalyzeInit ==
    /\ agents = FullRegistry
    /\ analysis_result = [name \in DOMAIN agents |-> NoResult]
    /\ feature_request = <<>>
    /\ pc = "idle"
    /\ start_agents = <<>>
    /\ seed_i = 1
    /\ call = <<>>
    /\ stack = <<>>
    /\ results = [feature_request |-> <<>>, agents_involved |-> <<>>,
                  analyses |-> <<>>, call_tree |-> <<>>]
    /\ context = <<>>
    /\ calls = <<>>
    /\ edges = <<>>
    /\ \E name \in AnalyzeNames, request \in AnalyzeRequests :
           \E response \in TestTexts(FullRegistry[name]) :
               interp = [name |-> name, request |-> request,
                         response |-> response, state |-> "called",
                         parsed |-> FALSE, result |-> EmptyDict]
    /\ coord = NoCoord
    /\ plan = NoPlan
    /\ replay = NoReplay

\* Agent.analyze on the response the completion client handed back
Interpret ==
    /\ interp.state = "called"
    /\ LET r == Analyze(agents[interp.name], interp.request, interp.response)
       IN  /\ interp' = [interp EXCEPT
                            !.state = IF r.raised THEN "raised" ELSE "returned",
                            !.parsed = r.parsed,
                            !.result = r.analysis]
           /\ analysis_result' =
                  IF r.parsed
                  THEN [analysis_result EXCEPT
                            ![interp.name] = [is_set |-> TRUE, value |-> r.analysis]]
                  ELSE analysis_result
    /\ UNCHANGED <<agents, feature_request, pc, start_agents, seed_i, call,
                   stack, results, context, calls, edges, coord, plan,
                   replay>>

AnalyzeNext == Interpret

AnalyzeSpec == AnalyzeInit /\ [][AnalyzeNext]_vars

(***************************************************************************)
(* orchestrate on the part of the registry the first entry agent reaches   *)
(* in two steps: Agent-A1 -> [Agent-B1, Agent-B2], Agent-B1 -> [Agent-B2]. *)
(***************************************************************************)
DeepNames == {AgentName("A", "1"), AgentName("B", "1"), AgentName("B", "2")}

\* the registry on these agents, every downstream list in declared order
DeepRegistry ==
    [name \in DeepNames |->
        SelectNames(BuiltinDownstream[CHOOSE i \in 1..Len(AgentOrder) :
                                          AgentOrder[i] = name],
                    DeepNames)]

\* that registry, and its misconfiguration by an unregistered name in the
\* downstream list of Agent-B2
DeepRegistries ==
    {DeepRegistry,
     AddEdge(DeepRegistry, AgentName("B", "2"), DanglingName)}

\* the feature requests whose seeds are all among these agents
DeepRequests ==
    {request \in FeatureRequests :
         \A i \in 1..Len(StartAgents(request)) :
             StartAgents(request)[i] \in DeepNames}

DeepInit ==
    /\ agents \in DeepRegistries
    /\ analysis_result = [name \in DOMAIN agents |-> NoResult]
    /\ feature_request = <<>>
    /\ pc = "idle"
    /\ start_agents = <<>>
    /\ seed_i = 1
    /\ call = <<>>
    /\ stack = <<>>
    /\ results = [feature_request |-> <<>>, agents_involved |-> <<>>,
                  analyses |-> <<>>, call_tree |-> <<>>]
    /\ context = <<>>
    /\ calls = <<>>
    /\ edges = <<>>
    /\ interp = NoInterp
    /\ coord = NoCoord
    /\ plan = NoPlan
    /\ replay = NoReplay

DeepNext ==
    \/ \E request \in DeepRequests : Orchestrate(request)
    \/ SeedLoop
    \/ NotFound
    \/ Skip
    \/ AnalyzeAgent
    \/ DownstreamNeeded
    \/ DownstreamNotNeeded
    \/ Return
    \/ Finish
    \/ FinishRaise

DeepSpec == DeepInit /\ [][DeepNext]_vars

(***************************************************************************)
(* scripts/ai-agent-coordinator.py: AgentCoordinator.coordinate over the   *)
(* three agents Agent A, Agent B and Agent C.  Its Agent.analyze cleans and *)
(* slices the reply as the orchestrator's does; the flags needs_agent_b    *)
(* and needs_agent_c are among its required keys.                          *)
(***************************************************************************)
CoordKeyB == <<"a", "g", "e", "n", "t", "_", "b">>

CoordKeyC == <<"a", "g", "e", "n", "t", "_", "c">>

CoordNeedsKeys == {CoordKeyB, CoordKeyC}

\* Agent._create_default_analysis of the coordinator
CoordDefaultAnalysis(request) ==
    [fields |-> [key \in RequiredKeys |->
                    CASE key = "impact" -> JStr(<<"Analyzing impact of: ">> \o request)
                      [] key = "components" -> JList(<<"Unknown">>)
                      [] key = "changes" -> JList(<<"Analysis needed">>)
                      [] key = "effort_hours" -> JNum(0)
                      [] OTHER -> JList(<<"AI analysis unavailable">>)],
     needs |-> [key \in CoordNeedsKeys |-> JBool(FALSE)]]

\* the back-filling of the missing required keys of a parsed object
CoordFillParsed(parsed) ==
    [fields |-> [key \in (DOMAIN parsed.fields) \cup RequiredKeys |->
                    IF key \in DOMAIN parsed.fields
                    THEN parsed.fields[key]
                    ELSE BackfillValue(key)],
     needs |-> [key \in (DOMAIN parsed.needs) \cup CoordNeedsKeys |->
                    IF key \in DOMAIN parsed.needs
                    THEN parsed.needs[key]
                    ELSE JBool(FALSE)]]

\* Agent.analyze of the coordinator, from the raw response on
CoordAnalyze(request, response) ==
    LET cleaned == StripFences(Strip(response))
    IN  IF BracePairFound(cleaned) /\ JsonValid(JsonStr(cleaned))
        THEN [parsed |-> TRUE,
              analysis |-> CoordFillParsed(JsonLoads(JsonStr(cleaned)))]
        ELSE [parsed |-> FALSE, analysis |-> CoordDefaultAnalysis(request)]

\* the object replies: well typed, with the effort as a string, with the
\* flags as the string "false", and without the flag for Agent C
CoordObjects ==
    {[fields |-> FieldsWith(e), needs |-> n] :
        e \in EffortValues, n \in [CoordNeedsKeys -> FlagValues]}
    \cup {[fields |-> FieldsWith(JStr(<<"8">>)),
           needs |-> [key \in CoordNeedsKeys |-> JBool(FALSE)]],
          [fields |-> FieldsWith(JNum(3)),
           needs |-> [key \in CoordNeedsKeys |-> JStr(<<"false">>)]],
          [fields |-> FieldsWith(JNum(3)),
           needs |-> [key \in {CoordKeyB} |-> JBool(TRUE)]]}

\* the outcomes of one completion request of the coordinator
CoordOutcomes ==
    {[ok |-> FALSE, text |-> <<>>],
     [ok |-> TRUE, text |-> <<Tok("txt")>>],
     [ok |-> TRUE, text |-> <<Tok("lb"), Tok("txt"), Tok("rb")>>]}
    \cup {[ok |-> TRUE, text |-> <<ObjTok(d)>>] : d \in CoordObjects}

CoordRequests == { <<"u", "s", "e", "r">>, <<"h", "i">> }

\* coordinate, up to the first step
Coordinate(request) ==
    /\ coord.pc = "idle"
    /\ coord' = [coord EXCEPT !.pc = "step1", !.feature_request = request,
                              !.agents_involved = <<>>, !.analyses = <<>>]
    /\ UNCHANGED <<agents, analysis_result, feature_request, pc, start_agents,
                   seed_i, call, stack, results, context, calls, edges, interp,
                   plan, replay>>

\* agent.analyze(feature_request, context) and the recording of the result
CoordRecord(name, key, keys, outcome, next_pc) ==
    LET r == CoordAnalyze(coord.feature_request, Generate(outcome))
    IN  coord' = [coord EXCEPT
                     !.agents_involved = Append(@, name),
                     !.analyses = Put(@, key, r.analysis),
                     !.calls = Append(@, [agent |-> name, context |-> keys]),
                     !.pc = next_pc[r.analysis]]

\* Step 1: Agent A analyzes; the branch taken on its flags
CoordStep1 ==
    /\ coord.pc = "step1"
    /\ \E outcome \in CoordOutcomes :
           CoordRecord("Agent A", "agent_a", {}, outcome,
                       [a \in {CoordAnalyze(coord.feature_request, Generate(outcome)).analysis} |->
                           IF Truthy(GetNeeds(a, CoordKeyB, JBool(FALSE)))
                           THEN "step2"
                           ELSE IF Truthy(GetNeeds(a, CoordKeyC, JBool(FALSE)))
                           THEN "step3alt"
                           ELSE "total"])
    /\ UNCHANGED <<agents, analysis_result, feature_request, pc, start_agents,
                   seed_i, call, stack, results, context, calls, edges, interp,
                   plan, replay>>

\* Step 2: Agent A needs Agent B
CoordStep2 ==
    /\ coord.pc = "step2"
    /\ \E outcome \in CoordOutcomes :
           CoordRecord("Agent B", "agent_b", {"agent_a_analysis"}, outcome,
                       [b \in {CoordAnalyze(coord.feature_request, Generate(outcome)).analysis} |->
                           IF Truthy(GetNeeds(b, CoordKeyC, JBool(FALSE)))
                           THEN "step3"
                           ELSE "total"])
    /\ UNCHANGED <<agents, analysis_result, feature_request, pc, start_agents,
                   seed_i, call, stack, results, context, calls, edges, interp,
                   plan, replay>>

\* Step 3: Agent B needs Agent C
CoordStep3 ==
    /\ coord.pc = "step3"
    /\ \E outcome \in CoordOutcomes :
           CoordRecord("Agent C", "agent_c",
                       {"agent_a_analysis", "agent_b_analysis"}, outcome,
                       [c \in {CoordAnalyze(coord.feature_request, Generate(outcome)).analysis} |->
                           "total"])
    /\ UNCHANGED <<agents, analysis_result, feature_request, pc, start_agents,
                   seed_i, call, stack, results, context, calls, edges, interp,
                   plan, replay>>

\* Step 3 (alternative): Agent A does not need Agent B and needs Agent C
CoordStep3Alt ==
    /\ coord.pc = "step3alt"
    /\ \E outcome \in CoordOutcomes :
           CoordRecord("Agent C", "agent_c", {"agent_a_analysis"}, outcome,
                       [c \in {CoordAnalyze(coord.feature_request, Generate(outcome)).analysis} |->
                           "total"])
    /\ UNCHANGED <<agents, analysis_result, feature_request, pc, start_agents,
                   seed_i, call, stack, results, context, calls, edges, interp,
                   plan, replay>>

\* coordinate: the total is computed and the results are returned
CoordFinish ==
    /\ coord.pc = "total"
    /\ ~SumRaises(coord.analyses)
    /\ coord' = [coord EXCEPT !.pc = "done",
                              !.total_effort_hours = TotalEffort(coord.analyses)]
    /\ UNCHANGED <<agents, analysis_result, feature_request, pc, start_agents,
                   seed_i, call, stack, results, context, calls, edges, interp,
                   plan, replay>>

\* coordinate: sum() raises TypeError
CoordFinishRaise ==
    /\ coord.pc = "total"
    /\ SumRaises(coord.analyses)
    /\ coord' = [coord EXCEPT !.pc = "raised"]
    /\ UNCHANGED <<agents, analysis_result, feature_request, pc, start_agents,
                   seed_i, call, stack, results, context, calls, edges, interp,
                   plan, replay>>

CoordInit ==
    /\ agents = FullRegistry
    /\ analysis_result = [name \in DOMAIN agents |-> NoResult]
    /\ feature_request = <<>>
    /\ pc = "idle"
    /\ start_agents = <<>>
    /\ seed_i = 1
    /\ call = <<>>
    /\ stack = <<>>
    /\ results = [feature_request |-> <<>>, agents_involved |-> <<>>,
                  analyses |-> <<>>, call_tree |-> <<>>]
    /\ context = <<>>
    /\ calls = <<>>
    /\ edges = <<>>
    /\ interp = NoInterp
    /\ coord = NoCoord
    /\ plan = NoPlan
    /\ replay = NoReplay

CoordNext ==
    \/ \E request \in CoordRequests : Coordinate(request)
    \/ CoordStep1
    \/ CoordStep2
    \/ CoordStep3
    \/ CoordStep3Alt
    \/ CoordFinish
    \/ CoordFinishRaise

CoordSpec == CoordInit /\ [][CoordNext]_vars

(***************************************************************************)
(* main of ai-agent-orchestrator.py prints the results as JSON after a     *)
(* "JSON Results:" line; extract_json_from_log of                          *)
(* generate-implementation-plan.py reads them back.  The log is a sequence *)
(* of characters; q tells the characters inside a JSON string literal, and *)
(* a run of characters without braces is kept as one element.              *)
(***************************************************************************)
Ch(c) == [c |-> c, q |-> FALSE, v |-> JNull]

InStr(c) == [c |-> c, q |-> TRUE, v |-> JNull]

\* a number, boolean or null literal
Literal(v) == [c |-> "literal", q |-> FALSE, v |-> v]

\* the elements of a set in a fixed order
RECURSIVE SeqOf(_)
SeqOf(S) ==
    IF S = {} THEN <<>>
    ELSE LET x == CHOOSE x \in S : TRUE IN <<x>> \o SeqOf(S \ {x})

\* the pieces joined with commas
RECURSIVE Join(_)
Join(pieces) ==
    IF pieces = <<>> THEN <<>>
    ELSE IF Len(pieces) = 1 THEN pieces[1]
    ELSE pieces[1] \o <<Ch(",")>> \o Join(Tail(pieces))

\* json.dumps of a string: braces are not escaped
DumpStr(chars) ==
    <<Ch("\"")>> \o [i \in 1..Len(chars) |-> InStr(chars[i])] \o <<Ch("\"")>>

\* json.dumps of a field value
DumpValue(value) ==
    CASE value.t = "str" -> DumpStr(value.s)
      [] value.t = "list" ->
            <<Ch("[")>>
            \o Join([i \in 1..Len(value.s) |-> DumpStr(<<value.s[i]>>)])
            \o <<Ch("]")>>
      [] OTHER -> <<Literal(value)>>

\* json.dumps of one analysis record
DumpAnalysis(analysis) ==
    LET fkeys == SeqOf(DOMAIN analysis.fields)
        nkeys == SeqOf(DOMAIN analysis.needs)
    IN  <<Ch("{")>>
        \o Join([i \in 1..Len(fkeys) |->
                    DumpStr(<<fkeys[i]>>) \o <<Ch(":")>>
                    \o DumpValue(analysis.fields[fkeys[i]])]
                \o [i \in 1..Len(nkeys) |->
                    DumpStr(<<"needs_">> \o nkeys[i]) \o <<Ch(":")>>
                    \o DumpValue(analysis.needs[nkeys[i]])])
        \o <<Ch("}")>>

\* json.dumps(results)
Dumps(res) ==
    LET akeys == SeqOf(DOMAIN res.analyses)
    IN  <<Ch("{")>>
        \o Join(<<
             DumpStr(<<"feature_request">>) \o <<Ch(":")>>
                 \o DumpStr(res.feature_request),
             DumpStr(<<"agents_involved">>) \o <<Ch(":"), Ch("[")>>
                 \o Join([i \in 1..Len(res.agents_involved) |->
                             DumpStr(res.agents_involved[i])])
                 \o <<Ch("]")>>,
             DumpStr(<<"analyses">>) \o <<Ch(":"), Ch("{")>>
                 \o Join([i \in 1..Len(akeys) |->
                             DumpStr(akeys[i]) \o <<Ch(":")>>
                             \o DumpAnalysis(res.analyses[akeys[i]])])
                 \o <<Ch("}")>>,
             DumpStr(<<"call_tree">>) \o <<Ch(":"), Ch("[")>>
                 \o Join([i \in 1..Len(res.call_tree) |->
                             <<Ch("{")>> \o DumpStr(<<"agent">>) \o <<Ch(":")>>
                             \o DumpStr(res.call_tree[i].agent)
                             \o <<Ch(","), Literal(JNum(res.call_tree[i].level)),
                                  Ch("}")>>])
                 \o <<Ch("]")>>,
             DumpStr(<<"total_effort_hours">>) \o <<Ch(":")>>
                 \o <<Literal(JNum(res.total_effort_hours))>> >>)
        \o <<Ch("}")>>

\* what main and orchestrate print: the request, the formatted analysis,
\* the "JSON Results:" line, the dump and the closing lines
MainLog(res) ==
    <<Ch("[AI] Starting AI-driven hierarchical analysis for: ")>>
    \o [i \in 1..Len(res.feature_request) |-> Ch(res.feature_request[i])]
    \o <<Ch("formatted analysis"), Ch("JSON Results:")>>
    \o Dumps(res)
    \o <<Ch("[OK] Analysis complete!")>>

\* content.find(c, from): the first position at or after from, 0 for none
FindFrom(content, c, from) ==
    LET hits == {i \in from..Len(content) : content[i].c = c}
    IN  IF hits = {} THEN 0 ELSE CHOOSE i \in hits : \A j \in hits : i <= j

\* brace_count after the characters start..i have been read
BraceCount(content, start, i) ==
    Cardinality({j \in start..i : content[j].c = "{"})
    - Cardinality({j \in start..i : content[j].c = "}"})

\* the loop over range(start, len(content)): the position of the first
\* closing brace that brings brace_count to zero, 0 when the loop ends
\* without a break
MatchingClose(content, start) ==
    LET hits == {i \in start..Len(content) :
                    content[i].c = "}" /\ BraceCount(content, start, i) = 0}
    IN  IF hits = {} THEN 0 ELSE CHOOSE i \in hits : \A j \in hits : i <= j

\* the nesting depth of a document after its first i characters, braces
\* inside string literals not counted
DocDepth(doc, i) ==
    Cardinality({j \in 1..i : doc[j] = Ch("{")})
    - Cardinality({j \in 1..i : doc[j] = Ch("}")})

\* json.loads accepts the text: one whole object
JsonDocValid(doc) ==
    /\ doc # <<>>
    /\ doc[1] = Ch("{")
    /\ \A i \in 1..(Len(doc) - 1) : DocDepth(doc, i) > 0
    /\ DocDepth(doc, Len(doc)) = 0

\* the text main prints after the marker, up to and including position e
PrintedDoc(content, s, e) == IF e = 0 THEN <<>> ELSE SubSeq(content, s, e)

\* extract_json_from_log on the content of the log file: None, or the
\* document json.loads accepted (the object it returns is the one whose dump
\* the document is)
ExtractJsonFromLog(content) ==
    LET marker == FindFrom(content, "JSON Results:", 1)
        start == FindFrom(content, "{",
                          IF marker = 0 THEN Len(content) ELSE marker)
        json_str == PrintedDoc(content, start,
                               MatchingClose(content, start))
    IN  IF ~\E i \in 2..(Len(content) - 1) :
               /\ content[i].c = "feature_request"
               /\ content[i - 1].c = "\"" /\ content[i + 1].c = "\""
        THEN [found |-> FALSE, doc |-> <<>>]
        ELSE IF start = 0
        THEN [found |-> FALSE, doc |-> <<>>]
        ELSE IF JsonDocValid(json_str)
        THEN [found |-> TRUE, doc |-> json_str]
        ELSE [found |-> FALSE, doc |-> <<>>]

\* requests and impact texts, with and without braces
PlanRequests ==
    { <<"h", "i">>, <<"{">>, <<"}">>, <<"{", "}">>, <<"}", "{">>,
      <<"u", "s", "e", "r", " ", "{">> }

PlanImpacts ==
    { <<"impact text">>, <<"{">>, <<"}">>, <<"a", "{", "b", "}", "c">> }

\* the reply of an agent that needs no downstream agent
PlanReply(name, impact) ==
    [fields |-> [FieldsWith(JNum(2)) EXCEPT !["impact"] = JStr(impact)],
     needs |-> [key \in DeclaredKeys(FullRegistry[name]) |-> JBool(FALSE)]]

\* the record Agent.analyze makes of the reply
PlanRecord(name, request, impact) ==
    Analyze(FullRegistry[name], request, <<ObjTok(PlanReply(name, impact))>>).analysis

\* the state in which orchestrate(request) has returned, every seed having
\* answered with the impact text chosen for it
PlanDone(request, impacts) ==
    LET seeds == StartAgents(request)
        record(i) == PlanRecord(seeds[i], request, impacts[i])
        analyses == [key \in {AnalysesKey(seeds[i]) : i \in 1..Len(seeds)} |->
                        record(CHOOSE i \in 1..Len(seeds) :
                                   AnalysesKey(seeds[i]) = key)]
    IN  /\ agents = FullRegistry
        /\ analysis_result =
               [name \in DOMAIN FullRegistry |->
                   IF \E i \in 1..Len(seeds) : seeds[i] = name
                   THEN [is_set |-> TRUE,
                         value |-> record(CHOOSE i \in 1..Len(seeds) :
                                              seeds[i] = name)]
                   ELSE NoResult]
        /\ feature_request = request
        /\ pc = "done"
        /\ start_agents = seeds
        /\ seed_i = Len(seeds) + 1
        /\ call = <<>>
        /\ stack = <<>>
        /\ results = [feature_request |-> request,
                      agents_involved |-> seeds,
                      analyses |-> analyses,
                      call_tree |-> [i \in 1..Len(seeds) |->
                                        [agent |-> seeds[i], level |-> 0]],
                      total_effort_hours |-> TotalEffort(analyses)]
        /\ context = [name \in {seeds[i] : i \in 1..Len(seeds)} |->
                         record(CHOOSE i \in 1..Len(seeds) : seeds[i] = name)]
        /\ calls = [i \in 1..Len(seeds) |->
                       [agent |-> seeds[i],
                        context |-> [name \in {seeds[j] : j \in 1..(i - 1)} |->
                                        record(CHOOSE j \in 1..Len(seeds) :
                                                   seeds[j] = name)],
                        ok |-> TRUE]]
        /\ edges = [i \in 1..Len(seeds) |-> 0]

\* main: print("JSON Results:"); print(json.dumps(results, indent=2))
MainPrint ==
    /\ pc = "done"
    /\ plan.pc = "idle"
    /\ plan' = [plan EXCEPT !.pc = "logged", !.log = MainLog(results)]
    /\ UNCHANGED <<agents, analysis_result, feature_request, pc, start_agents,
                   seed_i, call, stack, results, context, calls, edges, interp,
                   coord, replay>>

\* extract_json_from_log(log_file)
ExtractPlan ==
    /\ plan.pc = "logged"
    /\ LET x == ExtractJsonFromLog(plan.log)
       IN  plan' = [plan EXCEPT !.pc = "extracted", !.found = x.found,
                                !.data = x.doc]
    /\ UNCHANGED <<agents, analysis_result, feature_request, pc, start_agents,
                   seed_i, call, stack, results, context, calls, edges, interp,
                   coord, replay>>

PlanInit ==
    /\ \E request \in PlanRequests :
           \E impacts \in [1..Len(StartAgents(request)) -> PlanImpacts] :
               PlanDone(request, impacts)
    /\ interp = NoInterp
    /\ coord = NoCoord
    /\ plan = NoPlan
    /\ replay = NoReplay

PlanNext ==
    \/ MainPrint
    \/ ExtractPlan

PlanSpec == PlanInit /\ [][PlanNext]_vars

(***************************************************************************)
(* Two orchestrate calls on one AgentOrchestrator instance, with the same  *)
(* feature request and the same sequence of completion replies.            *)
(***************************************************************************)
\* the replies of a script: a failure, an object asking for every agent, an
\* object asking for none, and an object with the effort as a string
ReplayOutcomes ==
    {[ok |-> FALSE, text |-> <<>>],
     [ok |-> TRUE,
      text |-> <<ObjTok([fields |-> FieldsWith(JNum(2)),
                         needs |-> [key \in AllNeedsKeys |-> JBool(TRUE)]])>>],
     [ok |-> TRUE,
      text |-> <<ObjTok([fields |-> FieldsWith(JNum(3)),
                         needs |-> [key \in AllNeedsKeys |-> JBool(FALSE)]])>>],
     [ok |-> TRUE,
      text |-> <<ObjTok([fields |-> FieldsWith(JStr(<<"8">>)),
                         needs |-> [key \in AllNeedsKeys |-> JBool(TRUE)]])>>]}

\* one reply per completion request a call can make
ReplayScripts == [1..MaxAgents -> ReplayOutcomes]

ReplayRegistries == {Registry, AddFirstEdge(Registry, AgentOrder[1], DanglingName)}

ReplayRequests == { <<"u", "s", "e", "r">>, <<"h", "i">> }

\* the caller calls orchestrate; the second call repeats the request
ReplayOrchestrate(request) ==
    /\ replay.run = 2 => request = feature_request
    /\ Orchestrate(request)

\* _analyze_recursive: the agent is registered and not yet analysed; the
\* completion service gives the next reply of the script
ReplayAnalyzeAgent ==
    /\ pc = "running"
    /\ call # <<>>
    /\ call[1].agent_name \in DOMAIN agents
    /\ ~Visited(call[1].agent_name, results.agents_involved)
    /\ Len(stack) < MaxDepth
    /\ RecordAnalysis(replay.script[Len(results.agents_involved) + 1])

\* the first call is over (returned or raised); the caller keeps its outcome
\* and calls again
Again ==
    /\ replay.run = 1
    /\ pc \in {"done", "raised"}
    /\ replay' = [replay EXCEPT !.run = 2, !.first_pc = pc, !.first = results,
                                !.first_calls = Len(calls)]
    /\ pc' = "idle"
    /\ UNCHANGED <<agents, analysis_result, feature_request, start_agents,
                   seed_i, call, stack, results, context, calls, edges, interp,
                   coord, plan>>

ReplayInit ==
    /\ agents \in ReplayRegistries
    /\ analysis_result = [name \in DOMAIN agents |-> NoResult]
    /\ feature_request = <<>>
    /\ pc = "idle"
    /\ start_agents = <<>>
    /\ seed_i = 1
    /\ call = <<>>
    /\ stack = <<>>
    /\ results = [feature_request |-> <<>>, agents_involved |-> <<>>,
                  analyses |-> <<>>, call_tree |-> <<>>]
    /\ context = <<>>
    /\ calls = <<>>
    /\ edges = <<>>
    /\ interp = NoInterp
    /\ coord = NoCoord
    /\ plan = NoPlan
    /\ \E script \in ReplayScripts : replay = [NoReplay EXCEPT !.script = script]

ReplayNext ==
    \/ \E request \in ReplayRequests : ReplayOrchestrate(request)
    \/ SeedLoop
    \/ NotFound
    \/ Skip
    \/ ReplayAnalyzeAgent
    \/ DownstreamNeeded
    \/ DownstreamNotNeeded
    \/ Return
    \/ Finish
    \/ FinishRaise
    \/ Again

ReplaySpec == ReplayInit /\ [][ReplayNext]_vars

(***************************************************************************)
(* Properties of AgentOrchestrator.orchestrate.                            *)
(***************************************************************************)
\* no element occurs twice in the sequence
NoDuplicates(seq) ==
    \A i, j \in 1..Len(seq) : i # j => seq[i] # seq[j]

\* the agent names of a sequence of records with an agent field
AgentsOf(seq) == [i \in 1..Len(seq) |-> seq[i].agent]

\* positions of the agent in agents_involved
PositionsOf(name) ==
    {i \in 1..Len(results.agents_involved) : results.agents_involved[i] = name}

\* the agent declares the other as a downstream agent
Declares(name, other) == name \in DOMAIN agents /\ InList(other, agents[name])

\* the value the record of a visited agent holds for the flag of another
FlagOf(name, other) ==
    GetNeeds(context[name], NeedsKeyAgent(other), JNull)

\* C1: at every point of a run each agent name occurs at most once in
\* agents_involved, at most once as the agent of a call_tree entry, and
\* the completion service was called at most once for it.
C1_IdempotentVisitation ==
    /\ NoDuplicates(results.agents_involved)
    /\ NoDuplicates(AgentsOf(results.call_tree))
    /\ NoDuplicates(AgentsOf(calls))

\* an agent that two visited agents both flagged was reached and the run ended
C1_Witness ==
    /\ pc = "done"
    /\ \E y \in DOMAIN context :
           \E x1, x2 \in DOMAIN context :
               /\ x1 # x2
               /\ Declares(x1, y) /\ Truthy(FlagOf(x1, y))
               /\ Declares(x2, y) /\ Truthy(FlagOf(x2, y))

\* the longest downstream list of the registry
MaxDownstream ==
    CHOOSE n \in 0..20 :
        /\ \A name \in DOMAIN agents : Len(agents[name]) <= n
        /\ n = 0 \/ \E name \in DOMAIN agents : Len(agents[name]) = n

RECURSIVE FrameWork(_)
\* the loop iterations and returns the active frames still owe
FrameWork(frames) ==
    IF frames = <<>> THEN 0
    ELSE 2 * (Len(agents[Head(frames).agent_name]) - Head(frames).i + 1) + 1
         + FrameWork(Tail(frames))

\* a bound on the steps a running orchestrate call still takes: the work
\* already scheduled, plus the most every agent not yet analysed can add
StepsLeft ==
    IF pc = "running"
    THEN Cardinality({name \in DOMAIN agents :
                         ~InList(name, results.agents_involved)})
             * (2 * MaxDownstream + 2)
         + Len(call) + FrameWork(stack)
         + 2 * (Len(start_agents) - seed_i + 1) + 1
    ELSE 0

\* C2: the number of completion calls of a run never exceeds the number of
\* agents in the registry, and the run ends, whatever the registry graph
\* (self-loops and cycles included) and the flags: the recursion is never
\* deeper than the registry is large, every step of a running call lowers
\* a positive bound on the steps left, and a call that does not return
\* ended in the TypeError of the effort sum.
C2_Terminates ==
    /\ [](Len(calls) <= Cardinality(DOMAIN agents))
    /\ [](Len(stack) <= Cardinality(DOMAIN agents))
    /\ [](pc = "running" => StepsLeft > 0)
    /\ [](pc = "raised" => SumRaises(results.analyses))
    /\ [][pc = "running" => StepsLeft' < StepsLeft]_vars

\* a run over a registry with a self-loop whose flag was set returned after
\* calling the completion service for every agent
C2_Witness ==
    /\ pc = "done"
    /\ Declares(LastKept, LastKept)
    /\ LastKept \in DOMAIN context
    /\ Truthy(FlagOf(LastKept, LastKept))
    /\ Len(calls) = Cardinality(DOMAIN agents)

ResultKeys ==
    {"feature_request", "agents_involved", "analyses", "call_tree",
     "total_effort_hours"}

\* C3: orchestrate raises no exception, and what it returns contains
\* feature_request, agents_involved, analyses, call_tree and
\* total_effort_hours, whatever the completion outcomes were.
C3_NeverFails ==
    /\ pc # "raised"
    /\ pc = "done" => ResultKeys \subseteq DOMAIN results

RECURSIVE SumRecords(_, _)
\* the sum of the efforts of the records a map holds for a list of keys
SumRecords(map, keys) ==
    IF keys = <<>> THEN 0
    ELSE NumValue(map[Head(keys)].fields["effort_hours"])
         + SumRecords(map, Tail(keys))

\* C4: in the returned result total_effort_hours is the sum of effort_hours
\* over the entries of the analyses map, which is the sum of the efforts of
\* the records returned for the agents of agents_involved, each counted once.
C4_EffortAdditivity ==
    pc = "done" =>
        /\ results.total_effort_hours =
               SumRecords(context, results.agents_involved)
        /\ results.total_effort_hours =
               SumRecords(results.analyses,
                          [i \in 1..Len(results.agents_involved) |->
                              AnalysesKey(results.agents_involved[i])])
        /\ Cardinality(DOMAIN results.analyses) = Len(results.agents_involved)

\* a result over three agents with efforts 3, 2 and 3
C4_Witness ==
    /\ pc = "done"
    /\ Len(results.agents_involved) = 3
    /\ results.total_effort_hours = 8

\* C5: at every point of a run the agent names of call_tree, in order, are
\* agents_involved, and the level of every entry is the number of downstream
\* edges on the recursion path from its seed.
C5_CallTreeConsistency ==
    /\ AgentsOf(results.call_tree) = results.agents_involved
    /\ Len(edges) = Len(results.call_tree)
    /\ \A i \in 1..Len(results.call_tree) : results.call_tree[i].level = edges[i]

\* an agent was recorded two edges below its seed
C5_Witness ==
    \E i \in 1..Len(results.call_tree) :
        results.call_tree[i].level = 2 /\ edges[i] = 2

(***************************************************************************)
(* Properties of Agent.analyze.                                            *)
(***************************************************************************)
\* the reply is (a) empty, (b) without a brace pair, (c) a brace-delimited
\* body that is not JSON, or (d) one JSON object without the risks key
C6_ReplyClass(response) ==
    \/ response = <<>>
    \/ \A i \in 1..Len(response) : ~HasOpen(response[i])
    \/ \A i \in 1..Len(response) : ~HasClose(response[i])
    \/ /\ Len(response) >= 3
       /\ response[1].k = "lb"
       /\ response[Len(response)].k = "rb"
       /\ \E i \in 2..(Len(response) - 1) : response[i].k = "txt"
    \/ /\ Len(response) = 1
       /\ response[1].k = "obj"
       /\ "risks" \notin DOMAIN response[1].body.fields

\* C6: on an empty reply, a reply without a brace pair, a brace-delimited
\* body that is not valid JSON, and a JSON object without risks, Agent.analyze
\* raises nothing and returns a record with impact, components, changes,
\* effort_hours, risks and a flag for every declared downstream agent.
C6_ParserRobustness ==
    /\ interp.state # "raised"
    /\ (interp.state = "returned" /\ C6_ReplyClass(interp.response)) =>
           /\ RequiredKeys \subseteq DOMAIN interp.result.fields
           /\ DeclaredKeys(agents[interp.name]) \subseteq DOMAIN interp.result.needs

\* the record returned for an object without risks has an empty risks list
C6_Witness ==
    /\ interp.state = "returned"
    /\ Len(interp.response) = 1
    /\ interp.response[1].k = "obj"
    /\ "risks" \notin DOMAIN interp.response[1].body.fields
    /\ "impact" \in DOMAIN interp.response[1].body.fields
    /\ interp.result.fields["risks"] = JList(<<>>)
    /\ agents[interp.name] # <<>>

\* the JSON objects the reply text holds
ObjectsIn(response) ==
    {response[i].body : i \in {j \in 1..Len(response) : response[j].k = "obj"}}

\* the record has, for every declared key, the value the object carried for
\* it, and false where the object carried none
KeepsFlags(record, body, keys) ==
    \A key \in keys :
        /\ key \in DOMAIN record.needs
        /\ record.needs[key] =
               IF key \in DOMAIN body.needs THEN body.needs[key] ELSE JBool(FALSE)

\* C7: every record Agent.analyze returns has a flag for every name of the
\* agent's downstream_agents; a flag the reply did not carry is false and a
\* flag the reply carried keeps the reply's value.
C7_FlagsPresent ==
    interp.state = "returned" =>
        LET keys == DeclaredKeys(agents[interp.name])
        IN  IF interp.parsed /\ ObjectsIn(interp.response) # {}
            THEN \E body \in ObjectsIn(interp.response) :
                     KeepsFlags(interp.result, body, keys)
            ELSE KeepsFlags(interp.result, EmptyDict, keys)

\* a parsed record kept a carried non-boolean flag and defaulted no flag
C7_Witness ==
    /\ interp.state = "returned"
    /\ interp.parsed
    /\ Len(agents[interp.name]) = 3
    /\ \A key \in DeclaredKeys(agents[interp.name]) :
           interp.result.needs[key] = JStr(<<"false">>)

(***************************************************************************)
(* Properties of the traversal.                                            *)
(***************************************************************************)
\* the level of the call_tree entry of a visited agent
LevelOf(name) ==
    results.call_tree[CHOOSE i \in 1..Len(results.call_tree) :
                          results.call_tree[i].agent = name].level

\* the downstream agents the record of a visited agent flags
Flagged(name) ==
    {agents[name][i] : i \in {j \in 1..Len(agents[name]) :
                                  Truthy(FlagOf(name, agents[name][j]))}}

\* the effort the record of a visited agent states
EffortOf(name) == context[name].fields["effort_hours"]

\* the downstream loop of the innermost frame has reached a registered,
\* unvisited agent whose flag is true
C8_Reached ==
    /\ pc = "running"
    /\ call = <<>>
    /\ stack # <<>>
    /\ Top.i <= Len(agents[Top.agent_name])
    /\ FlagOf(Top.agent_name, agents[Top.agent_name][Top.i]) = JBool(TRUE)
    /\ agents[Top.agent_name][Top.i] \in DOMAIN agents
    /\ ~InList(agents[Top.agent_name][Top.i], results.agents_involved)

\* a call for a registered, unvisited agent is pending
C8_Entered ==
    /\ pc = "running"
    /\ call # <<>>
    /\ call[1].agent_name \in DOMAIN agents
    /\ ~InList(call[1].agent_name, results.agents_involved)

\* single seed X flagging only Y with effort 3, Y flagging nothing with
\* effort 2
C8_Scenario(x, y) ==
    /\ start_agents = <<x>>
    /\ x \in DOMAIN context
    /\ y \in DOMAIN agents
    /\ y # x
    /\ Flagged(x) = {y}
    /\ FlagOf(x, y) = JBool(TRUE)
    /\ EffortOf(x) = JNum(3)
    /\ y \in DOMAIN context => Flagged(y) = {} /\ EffortOf(y) = JNum(2)

\* C8: when the downstream loop of a visited agent X reaches a registered,
\* unvisited agent Y whose flag in X's record is true, Y is analysed next,
\* at level(X)+1, and when the run returns every registered agent flagged
\* true by a visited agent has been analysed; with single seed X (flag for
\* Y true, effort 3) and Y (nothing flagged, effort 2) the result is
\* agents_involved = [X, Y], call_tree = [(X,0),(Y,1)], total effort 5.
C8_DownstreamAnalysed ==
    /\ [][C8_Reached =>
              call' = <<[agent_name |-> agents[Top.agent_name][Top.i],
                         level |-> LevelOf(Top.agent_name) + 1]>>]_vars
    /\ [][C8_Entered =>
              /\ results'.agents_involved =
                     Append(results.agents_involved, call[1].agent_name)
              /\ results'.call_tree =
                     Append(results.call_tree,
                            [agent |-> call[1].agent_name,
                             level |-> call[1].level])]_vars
    /\ [](pc = "done" =>
              \A x \in DOMAIN context : \A y \in DOMAIN agents :
                  (Declares(x, y) /\ FlagOf(x, y) = JBool(TRUE)) =>
                      InList(y, results.agents_involved))
    /\ [](pc = "done" =>
              \A x, y \in DOMAIN agents :
                  C8_Scenario(x, y) =>
                      /\ results.agents_involved = <<x, y>>
                      /\ results.call_tree = <<[agent |-> x, level |-> 0],
                                               [agent |-> y, level |-> 1]>>
                      /\ results.total_effort_hours = 5)

\* the scenario ran to its result
C8_Witness ==
    /\ pc = "done"
    /\ \E x, y \in DOMAIN agents :
           /\ C8_Scenario(x, y)
           /\ agents[x] = <<y>>
           /\ agents[y] = <<>>
           /\ results.agents_involved = <<x, y>>
           /\ results.total_effort_hours = 5

\* C9: an agent that is not a seed is in agents_involved only if an agent
\* earlier in agents_involved declares it downstream and holds a true flag
\* for it; with a single seed X whose record has the flag for Y false,
\* agents_involved = [X], Y has no entry in analyses and the total is X's
\* effort.
C9_OnlyFlagged ==
    /\ \A i \in 1..Len(results.agents_involved) :
           ~InList(results.agents_involved[i], start_agents) =>
               \E j \in 1..(i - 1) :
                   /\ Declares(results.agents_involved[j], results.agents_involved[i])
                   /\ FlagOf(results.agents_involved[j], results.agents_involved[i])
                          = JBool(TRUE)
    /\ pc = "done" =>
           \A x \in DOMAIN context :
               (/\ start_agents = <<x>>
                /\ \A i \in 1..Len(agents[x]) :
                       FlagOf(x, agents[x][i]) = JBool(FALSE)) =>
                   /\ results.agents_involved = <<x>>
                   /\ DOMAIN results.analyses = {AnalysesKey(x)}
                   /\ results.total_effort_hours = NumValue(EffortOf(x))

\* two seeds, in that order, both declaring Y and both flagging it true
C10_Scenario(y) ==
    /\ Len(start_agents) = 2
    /\ y \in DOMAIN agents
    /\ ~InList(y, start_agents)
    /\ \A k \in 1..2 :
           /\ start_agents[k] \in DOMAIN context
           /\ Declares(start_agents[k], y)
           /\ FlagOf(start_agents[k], y) = JBool(TRUE)

\* C10: when two seeds X1, X2 both declare Y downstream and both records
\* flag Y as needed, Y is analysed exactly once: its one call_tree entry has
\* level 1 and lies between the entries of X1 and X2, the completion service
\* is called once for Y, and Y's effort is counted once in the total.
C10_SharedDownstreamOnce ==
    pc = "done" =>
        \A y \in DOMAIN agents :
            C10_Scenario(y) =>
                /\ Cardinality(PositionsOf(y)) = 1
                /\ Cardinality({i \in 1..Len(results.call_tree) :
                                    results.call_tree[i].agent = y}) = 1
                /\ Cardinality({i \in 1..Len(calls) : calls[i].agent = y}) = 1
                /\ \A i \in 1..Len(results.call_tree) :
                       results.call_tree[i].agent = y =>
                           /\ results.call_tree[i].level = 1
                           /\ \E j \in 1..(i - 1) :
                                  results.call_tree[j].agent = start_agents[1]
                           /\ \E j \in (i + 1)..Len(results.call_tree) :
                                  results.call_tree[j].agent = start_agents[2]
                /\ results.total_effort_hours =
                       SumRecords(context, results.agents_involved)
                /\ NoDuplicates(results.agents_involved)

\* both seeds flagged the shared agent and the run returned
C10_Witness ==
    /\ pc = "done"
    /\ \E y \in DOMAIN agents : C10_Scenario(y)
    /\ Len(results.agents_involved) = 3
    /\ results.call_tree[2].level = 1
    /\ results.call_tree[3].level = 0

(***************************************************************************)
(* Properties of the seed selection.                                       *)
(***************************************************************************)
\* the lower-cased request contains a keyword of the set
HasKeyword(request, keywords) ==
    \E w \in keywords : Contains(Lower(request), w)

\* no registered agent declares an entry agent downstream, as in the
\* registry the constructor builds
EntryAgentsOnTop ==
    \A name \in DOMAIN agents :
        ~Declares(name, AgentName("A", "1")) /\ ~Declares(name, AgentName("A", "2"))

\* C11: for a request with none of the configured keywords the seed list is
\* [Agent-A1, Agent-A2], and the returned agents_involved is non-empty,
\* begins with Agent-A1 and contains Agent-A2, both recorded at level 0.
C11_FallbackSeeds ==
    (/\ pc # "idle"
     /\ ~HasKeyword(feature_request, KeywordsA1)
     /\ ~HasKeyword(feature_request, KeywordsA2)) =>
        /\ start_agents = <<AgentName("A", "1"), AgentName("A", "2")>>
        /\ (pc = "done" /\ EntryAgentsOnTop) =>
               /\ results.agents_involved # <<>>
               /\ results.agents_involved[1] = AgentName("A", "1")
               /\ results.call_tree[1] = [agent |-> AgentName("A", "1"), level |-> 0]
               /\ \E i \in 2..Len(results.call_tree) :
                      results.call_tree[i] = [agent |-> AgentName("A", "2"), level |-> 0]

\* a request without keywords returned with a downstream agent between the
\* two entry agents
C11_Witness ==
    /\ pc = "done"
    /\ feature_request = <<"h", "i">>
    /\ EntryAgentsOnTop
    /\ Len(results.agents_involved) = 3
    /\ results.agents_involved[1] = AgentName("A", "1")
    /\ results.agents_involved[3] = AgentName("A", "2")

\* the seeds the claim states for a request
C12_Seeds(request) ==
    {name \in {AgentName("A", "1")} :
         \/ HasKeyword(request, KeywordsA1)
         \/ ~HasKeyword(request, KeywordsA1) /\ ~HasKeyword(request, KeywordsA2)}
    \cup {name \in {AgentName("A", "2")} :
         \/ HasKeyword(request, KeywordsA2)
         \/ ~HasKeyword(request, KeywordsA1) /\ ~HasKeyword(request, KeywordsA2)}

\* C12: Agent-A1 is a seed exactly when the lower-cased request contains a
\* keyword of the first set or no keyword of either set, Agent-A2 exactly
\* when it contains a keyword of the second set or none of either; no other
\* agent is a seed (only seeds are entered at level 0 from orchestrate); and
\* when both are seeds Agent-A1 comes first and its whole subtree is
\* finished before Agent-A2 is entered.
C12_SeedSelection ==
    /\ [](pc # "idle" =>
              /\ {start_agents[i] : i \in 1..Len(start_agents)}
                     = C12_Seeds(feature_request)
              /\ NoDuplicates(start_agents)
              /\ Len(start_agents) = 2 => start_agents[1] = AgentName("A", "1"))
    /\ [][(call = <<>> /\ call' # <<>> /\ stack = <<>>) =>
              /\ call'[1].level = 0
              /\ call'[1].agent_name \in C12_Seeds(feature_request)
              /\ call'[1].agent_name = AgentName("A", "2") /\ Len(start_agents) = 2 =>
                     /\ InList(AgentName("A", "1"), results.agents_involved)
                     /\ \A i \in 1..Len(results.agents_involved) :
                            LET name == results.agents_involved[i]
                            IN  \A k \in 1..Len(agents[name]) :
                                    (/\ Truthy(FlagOf(name, agents[name][k]))
                                     /\ agents[name][k] \in DOMAIN agents) =>
                                        InList(agents[name][k], results.agents_involved)]_vars
    /\ [][(call' # <<>> /\ call'[1].level = 0) => stack = <<>>]_vars

\* a request with a keyword of each set returned after both entry agents,
\* the first with a downstream agent, were traversed
C12_Witness ==
    /\ pc = "done"
    /\ HasKeyword(feature_request, KeywordsA1)
    /\ HasKeyword(feature_request, KeywordsA2)
    /\ Len(results.agents_involved) = 3
    /\ results.call_tree[2].level = 1
    /\ results.agents_involved[3] = AgentName("A", "2")

(***************************************************************************)
(* Properties of the default record and of the back-filling.               *)
(***************************************************************************)
\* the reply has no opening brace, or no closing brace
C13_NoBracePair(response) ==
    \/ \A i \in 1..Len(response) : ~HasOpen(response[i])
    \/ \A i \in 1..Len(response) : ~HasClose(response[i])

\* what the claim and its amendment share: effort 0, one sentinel risk, an
\* impact text containing the request, every declared flag false
C13_Common(record, name, request) ==
    /\ record.fields["effort_hours"] = JNum(0)
    /\ record.fields["risks"].t = "list"
    /\ Len(record.fields["risks"].s) = 1
    /\ record.fields["impact"].t = "str"
    /\ Contains(record.fields["impact"].s, request)
    /\ DOMAIN record.needs = DeclaredKeys(agents[name])
    /\ \A key \in DOMAIN record.needs : record.needs[key] = JBool(FALSE)

\* C13 (as claimed): the record Agent.analyze returns when no brace pair is
\* found or parsing fails has an empty components list, an empty changes
\* list, effort 0, exactly one sentinel risk, an impact text containing the
\* feature request, and every downstream flag false.
C13_DefaultRecord ==
    (interp.state = "returned" /\ ~interp.parsed) =>
        /\ interp.result.fields["components"] = JList(<<>>)
        /\ interp.result.fields["changes"] = JList(<<>>)
        /\ C13_Common(interp.result, interp.name, interp.request)

\* C13 (amended): the components list and the changes list of that record
\* hold one placeholder entry each ("Unknown", "Analysis needed"); the rest
\* is as claimed, and a reply without a brace pair always yields it.
C13_DefaultRecordAmended ==
    /\ (interp.state = "returned" /\ ~interp.parsed) =>
           /\ interp.result.fields["components"] = JList(<<"Unknown">>)
           /\ interp.result.fields["changes"] = JList(<<"Analysis needed">>)
           /\ C13_Common(interp.result, interp.name, interp.request)
    /\ (interp.state = "returned" /\ C13_NoBracePair(interp.response)) =>
           ~interp.parsed

\* the default record was returned for a brace pair that did not parse, by
\* an agent with three downstream agents
C13_Witness ==
    /\ interp.state = "returned"
    /\ ~interp.parsed
    /\ ~C13_NoBracePair(interp.response)
    /\ Len(agents[interp.name]) = 3
    /\ Cardinality(DOMAIN interp.result.needs) = 3

\* the reply holds exactly one object, no stray brace, and no code fence
\* line that would take the object with it
C14_ObjectReply(response) ==
    /\ Cardinality({i \in 1..Len(response) : response[i].k = "obj"}) = 1
    /\ \A i \in 1..Len(response) : response[i].k \notin {"lb", "rb"}
    /\ \/ ~StartsWithFence(Strip(response))
       \/ response \in FencedTexts(agents[interp.name])

\* the one object of such a reply
C14_Body(response) == CHOOSE body \in ObjectsIn(response) : TRUE

\* the record is the object with every missing field set to its default
C14_Backfilled(record, body, impact) ==
    /\ DOMAIN record.fields = (DOMAIN body.fields) \cup RequiredKeys
    /\ \A key \in DOMAIN body.fields : record.fields[key] = body.fields[key]
    /\ \A key \in RequiredKeys \ DOMAIN body.fields :
           record.fields[key] =
               CASE key = "impact" -> impact
                 [] key = "effort_hours" -> JNum(0)
                 [] OTHER -> JList(<<>>)

\* C14 (as claimed): a reply that parses as an object lacking some of the
\* five fields is returned with each missing field back-filled (empty
\* string for impact, empty list for components, changes and risks, 0 for
\* effort_hours) and every present field unchanged, not as the default
\* record.
C14_Backfill ==
    (interp.state = "returned" /\ C14_ObjectReply(interp.response)) =>
        /\ interp.parsed
        /\ C14_Backfilled(interp.result, C14_Body(interp.response), JStr(<<>>))

\* C14 (amended): a missing impact is back-filled with the text
\* "Not provided"; the rest is as claimed.
C14_BackfillAmended ==
    (interp.state = "returned" /\ C14_ObjectReply(interp.response)) =>
        /\ interp.parsed
        /\ C14_Backfilled(interp.result, C14_Body(interp.response),
                          JStr(<<"Not provided">>))
        /\ analysis_result[interp.name] =
               [is_set |-> TRUE, value |-> interp.result]

\* an object that carried only a (string) effort came back with the other
\* four fields back-filled
C14_Witness ==
    /\ interp.state = "returned"
    /\ C14_ObjectReply(interp.response)
    /\ DOMAIN C14_Body(interp.response).fields = {"effort_hours"}
    /\ interp.result.fields["effort_hours"] = JStr(<<"8">>)
    /\ interp.result.fields["impact"] = JStr(<<"Not provided">>)
    /\ interp.result.fields["risks"] = JList(<<>>)

(***************************************************************************)
(* Properties of the failure handling.                                     *)
(***************************************************************************)
\* the record is a default record: not taken from a reply
IsDefaultRecord(record, name) ==
    /\ record.fields["effort_hours"] = JNum(0)
    /\ record.fields["risks"] = JList(<<"AI analysis unavailable">>)
    /\ DOMAIN record.needs = DeclaredKeys(agents[name])
    /\ \A key \in DOMAIN record.needs : record.needs[key] = JBool(FALSE)

\* the completion call made for the agent failed
CallFailed(name) == \E i \in 1..Len(calls) : calls[i].agent = name /\ ~calls[i].ok

\* every seed and every downstream agent flagged by a visited agent has been
\* entered, as far as it is registered
TraversalComplete ==
    /\ \A i \in 1..Len(start_agents) :
           start_agents[i] \in DOMAIN agents =>
               InList(start_agents[i], results.agents_involved)
    /\ \A x \in DOMAIN context : \A y \in DOMAIN agents :
           (Declares(x, y) /\ Truthy(FlagOf(x, y))) =>
               InList(y, results.agents_involved)

\* C15: a failed completion call is made once, and the agent is recorded in
\* agents_involved, call_tree and analyses with the default record; no
\* downstream call is made from the frame of an agent whose call failed;
\* the failure ends nothing: the frame goes through its loop and returns,
\* and the run ends with every seed and every flagged downstream agent of
\* the other agents entered.
C15_FailureIsLocal ==
    /\ [](\A i \in 1..Len(calls) :
              ~calls[i].ok =>
                  /\ Cardinality({j \in 1..Len(calls) :
                                      calls[j].agent = calls[i].agent}) = 1
                  /\ results.agents_involved[i] = calls[i].agent
                  /\ results.call_tree[i].agent = calls[i].agent
                  /\ AnalysesKey(calls[i].agent) \in DOMAIN results.analyses
                  /\ IsDefaultRecord(results.analyses[AnalysesKey(calls[i].agent)],
                                     calls[i].agent)
                  /\ context[calls[i].agent] =
                         results.analyses[AnalysesKey(calls[i].agent)])
    /\ []((call # <<>> /\ stack # <<>>) => ~CallFailed(Top.agent_name))
    /\ [][(pc = "running" /\ stack # <<>> /\ CallFailed(Top.agent_name)) =>
              /\ pc' = "running"
              /\ call' = <<>>
              /\ \/ stack' = [stack EXCEPT ![Len(stack)].i = @ + 1]
                 \/ stack' = SubSeq(stack, 1, Len(stack) - 1)]_vars
    /\ [](pc \in {"done", "raised"} => TraversalComplete)

\* the call of a flagged downstream agent failed with a reply body, and the
\* run went on to the second seed and returned
C15_Witness ==
    /\ pc = "done"
    /\ Len(calls) = 3
    /\ calls[1].ok /\ ~calls[2].ok /\ calls[3].ok
    /\ results.call_tree[2].level = 1
    /\ results.call_tree[3].level = 0
    /\ results.total_effort_hours > 0

\* no reply of the run was interpreted: every call failed or returned text
\* Agent.analyze could not parse
NothingParsed ==
    \A name \in DOMAIN agents : ~analysis_result[name].is_set

\* C16: if every completion call of a run fails or returns uninterpretable
\* text, orchestrate returns: agents_involved is the seed list in seed
\* order, every call_tree entry has level 0, every record of analyses is a
\* default record, and total_effort_hours is 0.
C16_AllDefault ==
    /\ (pc = "raised" => ~NothingParsed)
    /\ (pc = "done" /\ NothingParsed) =>
           /\ results.agents_involved = start_agents
           /\ Len(results.call_tree) = Len(start_agents)
           /\ \A i \in 1..Len(results.call_tree) :
                  results.call_tree[i] = [agent |-> start_agents[i], level |-> 0]
           /\ DOMAIN results.analyses =
                  {AnalysesKey(start_agents[i]) : i \in 1..Len(start_agents)}
           /\ \A i \in 1..Len(start_agents) :
                  /\ IsDefaultRecord(results.analyses[AnalysesKey(start_agents[i])],
                                     start_agents[i])
                  /\ results.analyses[AnalysesKey(start_agents[i])].fields["components"]
                         = JList(<<"Unknown">>)
           /\ results.total_effort_hours = 0

\* a run with two seeds returned after one failed call and one reply that
\* could not be interpreted
C16_Witness ==
    /\ pc = "done"
    /\ NothingParsed
    /\ Len(start_agents) = 2
    /\ Len(calls) = 2
    /\ ~calls[1].ok
    /\ calls[2].ok
    /\ results.total_effort_hours = 0

\* a call for a name that is not in the registry is pending
C17_Entered ==
    /\ pc = "running"
    /\ call # <<>>
    /\ call[1].agent_name \notin DOMAIN agents

\* C17: _analyze_recursive entered with a name that is not in the registry
\* makes no completion call, leaves agents_involved, analyses, call_tree and
\* the context (and every agent) unchanged and returns to its caller, whose
\* loop position is kept; the run then goes on: it ends with every seed
\* and every registered agent flagged by a visited agent entered.
C17_NotFoundSkips ==
    /\ [][C17_Entered =>
              /\ calls' = calls
              /\ results' = results
              /\ context' = context
              /\ analysis_result' = analysis_result
              /\ call' = <<>>
              /\ stack' = stack
              /\ seed_i' = seed_i
              /\ pc' = "running"]_vars
    /\ [](C17_Entered => call[1].level > 0 /\ stack # <<>>)
    /\ [](pc \in {"done", "raised"} =>
              /\ \A i \in 1..Len(results.agents_involved) :
                     results.agents_involved[i] \in DOMAIN agents
              /\ TraversalComplete)

\* the first seed flagged an unregistered name and then a registered agent:
\* the registered agent and the second seed were analysed and the run
\* returned
C17_Witness ==
    /\ pc = "done"
    /\ agents[AgentName("A", "1")][1] = DanglingName
    /\ AgentName("A", "1") \in DOMAIN context
    /\ Truthy(FlagOf(AgentName("A", "1"), DanglingName))
    /\ Len(agents[AgentName("A", "1")]) >= 2
    /\ InList(agents[AgentName("A", "1")][2], results.agents_involved)
    /\ Len(start_agents) = 2
    /\ InList(AgentName("A", "2"), results.agents_involved)

(***************************************************************************)
(* Properties of the context.                                              *)
(***************************************************************************)
\* the agents analysed before the i-th completion call
Predecessors(i) == {results.agents_involved[j] : j \in 1..(i - 1)}

\* C18: within a run the context only grows: a key once added stays and
\* its record is never replaced; the context in the prompt of every
\* completion call maps exactly the agents analysed before it, whatever
\* seed they were reached from, to their records; and a run starts from an
\* empty context (so the first prompt carries none).
C18_ContextGrows ==
    /\ [][pc = "running" =>
              \A name \in DOMAIN context :
                  name \in DOMAIN context' /\ context'[name] = context[name]]_vars
    /\ [](pc # "idle" =>
              /\ DOMAIN context =
                     {results.agents_involved[j] :
                          j \in 1..Len(results.agents_involved)}
              /\ Len(calls) = Len(results.agents_involved)
              /\ \A i \in 1..Len(calls) :
                     /\ calls[i].agent = results.agents_involved[i]
                     /\ DOMAIN calls[i].context = Predecessors(i)
                     /\ \A name \in Predecessors(i) :
                            /\ calls[i].context[name] = context[name]
                            /\ calls[i].context[name] =
                                   results.analyses[AnalysesKey(name)])
    /\ [][pc # "running" /\ pc' = "running" => context' = <<>>]_vars
    /\ [](Len(calls) >= 1 => calls[1].context = <<>>)

\* the prompt of the second seed carried the records of the first seed and
\* of the first seed's downstream agent
C18_Witness ==
    /\ pc = "done"
    /\ Len(calls) = 3
    /\ calls[3].agent = AgentName("A", "2")
    /\ results.call_tree[2].level = 1
    /\ DOMAIN calls[3].context = {calls[1].agent, calls[2].agent}
    /\ ~Declares(calls[2].agent, AgentName("A", "2"))

(***************************************************************************)
(* Properties of the registry.                                             *)
(***************************************************************************)
\* C19: no orchestrate run mutates the registry or an agent descriptor: the
\* registry's key set and downstream lists and every attribute of every
\* agent object (analysis_result included) keep their values of
\* construction.
C19_RegistryImmutable ==
    /\ [][agents' = agents]_vars
    /\ [][analysis_result' = analysis_result]_vars
    /\ [](analysis_result = [name \in DOMAIN agents |-> NoResult])

(***************************************************************************)
(* Properties of the traversal order.                                      *)
(***************************************************************************)
\* the position of a visited agent in call_tree
PositionOf(name) ==
    CHOOSE i \in 1..Len(results.call_tree) : results.call_tree[i].agent = name

\* the downstream names of a visited agent the traversal is done with: all
\* of them once its frame has returned, those before the loop position
\* while it is active
DoneWith(name) ==
    IF \E k \in 1..Len(stack) : stack[k].agent_name = name
    THEN LET k == CHOOSE k \in 1..Len(stack) : stack[k].agent_name = name
         IN  1..(stack[k].i - 1)
    ELSE 1..Len(agents[name])

\* the call for the j-th downstream name of the innermost frame is pending
PendingFor(name, j) ==
    /\ call # <<>>
    /\ stack # <<>>
    /\ Top.agent_name = name
    /\ j = Top.i - 1
    /\ call[1].agent_name = agents[name][j]

\* Agent-A1 flagged Agent-B1 and Agent-B2, and Agent-B1 flagged Agent-B2
C20_Scenario ==
    /\ AgentName("A", "1") \in DOMAIN context
    /\ AgentName("B", "1") \in DOMAIN context
    /\ AgentName("B", "2") \in DOMAIN agents
    /\ agents[AgentName("A", "1")] = <<AgentName("B", "1"), AgentName("B", "2")>>
    /\ Declares(AgentName("B", "1"), AgentName("B", "2"))
    /\ FlagOf(AgentName("A", "1"), AgentName("B", "1")) = JBool(TRUE)
    /\ FlagOf(AgentName("A", "1"), AgentName("B", "2")) = JBool(TRUE)
    /\ FlagOf(AgentName("B", "1"), AgentName("B", "2")) = JBool(TRUE)

\* C20: the traversal is depth-first pre-order: the active frames are a
\* path of call_tree entries, each recorded before and one level above the
\* next; a new entry is appended at the end, below the innermost frame; the
\* loop of a frame takes the downstream names in declared order, one by
\* one; every flagged, registered downstream name the traversal is done
\* with has been recorded (so the subtree of an earlier sibling is complete
\* before a later one is entered); a call for a recorded agent changes
\* nothing; and when Agent-A1 flags Agent-B1 and Agent-B2 and Agent-B1
\* flags Agent-B2, Agent-B2 is recorded once, at level 2, after Agent-B1.
C20_DepthFirstPreOrder ==
    /\ [](\A k \in 1..Len(stack) :
              /\ InList(stack[k].agent_name, results.agents_involved)
              /\ LevelOf(stack[k].agent_name) = k - 1
              /\ k > 1 => PositionOf(stack[k - 1].agent_name)
                              < PositionOf(stack[k].agent_name))
    /\ [][results'.call_tree # results.call_tree =>
              /\ Len(results'.call_tree) = Len(results.call_tree) + 1
              /\ SubSeq(results'.call_tree, 1, Len(results.call_tree))
                     = results.call_tree
              /\ results'.call_tree[Len(results'.call_tree)].level = Len(stack)
              /\ stack' = Append(stack, stack'[Len(stack')])
              /\ stack'[Len(stack')].agent_name
                     = results'.call_tree[Len(results'.call_tree)].agent
              /\ stack'[Len(stack')].i = 1]_vars
    /\ [][(pc = "running" /\ stack # <<>> /\ Len(stack') = Len(stack)) =>
              /\ stack'[Len(stack)].i \in {Top.i, Top.i + 1}
              /\ (call = <<>> /\ call' # <<>>) =>
                     /\ stack'[Len(stack)].i = Top.i + 1
                     /\ call'[1].agent_name = agents[Top.agent_name][Top.i]]_vars
    /\ [](\A name \in DOMAIN context : \A j \in DoneWith(name) :
              (/\ Truthy(FlagOf(name, agents[name][j]))
               /\ agents[name][j] \in DOMAIN agents) =>
                  \/ InList(agents[name][j], results.agents_involved)
                  \/ PendingFor(name, j))
    /\ [][(call # <<>> /\ InList(call[1].agent_name, results.agents_involved)) =>
              /\ results' = results
              /\ calls' = calls
              /\ stack' = stack
              /\ call' = <<>>]_vars
    /\ [](C20_Scenario =>
              /\ InList(AgentName("B", "2"), results.agents_involved) =>
                     /\ LevelOf(AgentName("B", "2")) = 2
                     /\ PositionOf(AgentName("B", "1"))
                            < PositionOf(AgentName("B", "2"))
                     /\ Cardinality(PositionsOf(AgentName("B", "2"))) = 1
              /\ pc = "done" =>
                     /\ InList(AgentName("B", "2"), results.agents_involved)
                     /\ SubSeq(results.call_tree, 1, 3) =
                            <<[agent |-> AgentName("A", "1"), level |-> 0],
                              [agent |-> AgentName("B", "1"), level |-> 1],
                              [agent |-> AgentName("B", "2"), level |-> 2]>>)

\* in the scenario the call Agent-A1 makes for Agent-B2 found it recorded
\* at level 2
C20_Witness ==
    /\ C20_Scenario
    /\ call = <<[agent_name |-> AgentName("B", "2"), level |-> 1]>>
    /\ InList(AgentName("B", "2"), results.agents_involved)
    /\ LevelOf(AgentName("B", "2")) = 2

(***************************************************************************)
(* Properties of the flags.                                                *)
(***************************************************************************)
\* the needs_ keys of a record that are set and name no downstream agent of
\* the agent the record is of
UndeclaredSet(name) ==
    {key \in DOMAIN context[name].needs :
         /\ key \notin DeclaredKeys(agents[name])
         /\ Truthy(context[name].needs[key])}

\* C21: a needs_ flag that names an agent outside the replying agent's
\* downstream_agents, registered or not, is ignored: every agent analysed
\* that is not a seed is declared downstream, and flagged, by an agent
\* analysed before it; every call_tree entry of level d > 0 follows an
\* entry of level d-1 whose agent declares it downstream, and every entry
\* of level 0 is a seed; a single seed whose record sets only undeclared
\* flags is the only agent analysed.
C21_UndeclaredFlagsIgnored ==
    /\ \A i \in 1..Len(results.call_tree) :
           LET entry == results.call_tree[i]
           IN  IF entry.level = 0
               THEN InList(entry.agent, start_agents)
               ELSE \E j \in 1..(i - 1) :
                        /\ results.call_tree[j].level = entry.level - 1
                        /\ Declares(results.call_tree[j].agent, entry.agent)
                        /\ Truthy(FlagOf(results.call_tree[j].agent, entry.agent))
                        /\ \A k \in (j + 1)..(i - 1) :
                               results.call_tree[k].level >= entry.level
    /\ pc = "done" =>
           \A x \in DOMAIN context :
               (/\ start_agents = <<x>>
                /\ \A i \in 1..Len(agents[x]) :
                       ~Truthy(FlagOf(x, agents[x][i]))) =>
                   results.agents_involved = <<x>>

\* a single seed whose record set flags for registered agents outside its
\* downstream list, and for an unregistered name, returned alone
C21_Witness ==
    /\ pc = "done"
    /\ Len(start_agents) = 1
    /\ results.agents_involved = start_agents
    /\ NeedsKeyAgent(DanglingName) \in UndeclaredSet(start_agents[1])
    /\ \E name \in DOMAIN agents :
           /\ name # start_agents[1]
           /\ NeedsKeyAgent(name) \in UndeclaredSet(start_agents[1])

\* C22: every record in the analyses map has an effort_hours that is a
\* non-negative number, whatever the completion service replied, and the
\* total_effort_hours of a returned result is a non-negative number.
C22_EffortNonNegative ==
    /\ \A key \in DOMAIN results.analyses :
           /\ "effort_hours" \in DOMAIN results.analyses[key].fields
           /\ results.analyses[key].fields["effort_hours"].t = "num"
           /\ results.analyses[key].fields["effort_hours"].n >= 0
    /\ pc = "done" => results.total_effort_hours >= 0

\* C23: every downstream flag of a recorded analysis is a boolean, and an
\* agent that is not a seed is analysed only if an agent analysed before it
\* declares it downstream and holds the boolean true for it: a flag with
\* another value (the string "false") does not cause the analysis.
C23_BooleanFlags ==
    /\ \A name \in DOMAIN context :
           \A key \in DeclaredKeys(agents[name]) :
               /\ key \in DOMAIN context[name].needs
               /\ context[name].needs[key].t = "bool"
    /\ \A i \in 1..Len(results.call_tree) :
           results.call_tree[i].level > 0 =>
               \E j \in 1..(i - 1) :
                   /\ Declares(results.call_tree[j].agent, results.call_tree[i].agent)
                   /\ FlagOf(results.call_tree[j].agent, results.call_tree[i].agent)
                          = JBool(TRUE)

(***************************************************************************)
(* Properties of the slice Agent.analyze parses.                           *)
(***************************************************************************)
\* the positions of the pieces of a text that hold an opening brace, and of
\* those that hold a closing brace
C24_Opens(text) == {i \in 1..Len(text) : text[i].k \in {"lb", "obj"}}

C24_Closes(text) == {i \in 1..Len(text) : text[i].k \in {"rb", "obj"}}

C24_Min(S) == CHOOSE x \in S : \A y \in S : x <= y

C24_Max(S) == CHOOSE x \in S : \A y \in S : y <= x

\* the text holds a first '{' and, not before it, a last '}', and what lies
\* from the one to the other is one JSON object: a serialised object alone,
\* or a pair of braces around white space
C24_SliceIsObject(text) ==
    /\ C24_Opens(text) # {}
    /\ C24_Closes(text) # {}
    /\ C24_Min(C24_Opens(text)) <= C24_Max(C24_Closes(text))
    /\ LET first == C24_Min(C24_Opens(text))
           last == C24_Max(C24_Closes(text))
       IN  \/ first = last
           \/ /\ text[first].k = "lb"
              /\ text[last].k = "rb"
              /\ \A i \in (first + 1)..(last - 1) : text[i].k \in {"ws", "nl"}

\* the object such a slice parses to
C24_SliceObject(text) ==
    LET first == C24_Min(C24_Opens(text))
    IN  IF text[first].k = "obj" THEN text[first].body ELSE EmptyDict

\* C24: Agent.analyze parses exactly the substring from the first '{' to the
\* last '}' of the trimmed, fence-stripped reply: it returns the default
\* record when there is no '{', no '}', the last '}' precedes the first '{'
\* or the substring is not valid JSON (two objects side by side, an object
\* followed by text with a '}'), and otherwise the parsed object, whatever
\* brace-free text stands before or after it.
C24_ParsesOuterSlice ==
    interp.state = "returned" =>
        LET cleaned == StripFences(Strip(interp.response))
            downstream == agents[interp.name]
        IN  /\ IF C24_SliceIsObject(cleaned)
               THEN /\ interp.parsed
                    /\ \A key \in DOMAIN C24_SliceObject(cleaned).fields :
                           interp.result.fields[key]
                               = C24_SliceObject(cleaned).fields[key]
                    /\ \A key \in DOMAIN C24_SliceObject(cleaned).needs :
                           interp.result.needs[key]
                               = C24_SliceObject(cleaned).needs[key]
                    /\ analysis_result[interp.name].is_set
               ELSE /\ ~interp.parsed
                    /\ interp.result.fields["risks"]
                           = JList(<<"AI analysis unavailable">>)
                    /\ interp.result.fields["effort_hours"] = JNum(0)
                    /\ \A key \in DeclaredKeys(downstream) :
                           interp.result.needs[key] = JBool(FALSE)
                    /\ ~analysis_result[interp.name].is_set
            /\ (/\ Len(interp.response) >= 2
                /\ interp.response[1].k = "obj"
                /\ interp.response[Len(interp.response)].k \in {"obj", "rb"}) =>
                   ~interp.parsed
            /\ (/\ Len(interp.response) = 3
                /\ interp.response[1].k = "txt"
                /\ interp.response[2].k = "obj"
                /\ interp.response[3].k = "txt") =>
                   /\ interp.parsed
                   /\ \A key \in DOMAIN interp.response[2].body.fields :
                          interp.result.fields[key] = interp.response[2].body.fields[key]

\* an object between two pieces of brace-free text was parsed
C24_Witness ==
    /\ interp.state = "returned"
    /\ Len(interp.response) = 3
    /\ interp.response[1].k = "txt"
    /\ interp.response[2].k = "obj"
    /\ interp.response[3].k = "txt"
    /\ interp.parsed
    /\ "effort_hours" \in DOMAIN interp.response[2].body.fields
    /\ interp.result.fields["effort_hours"]
           = interp.response[2].body.fields["effort_hours"]

(***************************************************************************)
(* Properties of AgentCoordinator.coordinate.                              *)
(***************************************************************************)
\* the flag the analysis of Agent A holds under the key
CoordFlagOfA(key) == GetNeeds(coord.analyses["agent_a"], key, JNull)

\* C25: whenever the analysis of Agent A has needs_agent_c true, Agent C is
\* analysed in that coordinate run, also when Agent A needs Agent B as well
\* and the analysis of Agent B has needs_agent_c false.
C25_DirectNeedOfC ==
    (/\ coord.pc \in {"done", "raised"}
     /\ CoordFlagOfA(CoordKeyC) = JBool(TRUE)) =>
        InList("Agent C", coord.agents_involved)

\* the number of completion calls made for the agent
CoordCallsOf(name) ==
    Cardinality({i \in 1..Len(coord.calls) : coord.calls[i].agent = name})

\* the entries of the analyses map of the listed agents
CoordKeyOf(name) ==
    CASE name = "Agent A" -> "agent_a"
      [] name = "Agent B" -> "agent_b"
      [] OTHER -> "agent_c"

\* C29: in every coordinate run agents_involved is [Agent A], [Agent A,
\* Agent B], [Agent A, Agent C] or [Agent A, Agent B, Agent C]; the
\* completion service is called exactly once per listed agent; Agent B is
\* analysed exactly when needs_agent_b of Agent A is true; and
\* total_effort_hours is the sum of effort_hours over the analyses of the
\* listed agents.
C29_CoordinateShape ==
    coord.pc = "done" =>
        /\ coord.agents_involved \in
               { <<"Agent A">>, <<"Agent A", "Agent B">>, <<"Agent A", "Agent C">>,
                 <<"Agent A", "Agent B", "Agent C">> }
        /\ \A name \in {"Agent A", "Agent B", "Agent C"} :
               CoordCallsOf(name) = IF InList(name, coord.agents_involved) THEN 1 ELSE 0
        /\ InList("Agent B", coord.agents_involved)
               <=> CoordFlagOfA(CoordKeyB) = JBool(TRUE)
        /\ DOMAIN coord.analyses =
               {CoordKeyOf(coord.agents_involved[i]) :
                    i \in 1..Len(coord.agents_involved)}
        /\ coord.total_effort_hours =
               SumRecords(coord.analyses,
                          [i \in 1..Len(coord.agents_involved) |->
                              CoordKeyOf(coord.agents_involved[i])])

(***************************************************************************)
(* Properties of extract_json_from_log.                                    *)
(***************************************************************************)
\* C26: extract_json_from_log applied to the log main prints returns an
\* object equal to the orchestrate result, for every feature request and
\* every analysis text, also with '{' or '}' inside string values: the
\* document it parses is the dump of the results.
C26_LogRoundTrip ==
    plan.pc = "extracted" =>
        /\ plan.found
        /\ plan.data = Dumps(results)

(***************************************************************************)
(* The bookkeeping of one orchestrate run.                                 *)
(***************************************************************************)
\* C27: at every point of an orchestrate run over the built-in registry the
\* analyses map has exactly one entry per agent of agents_involved, stored
\* under the name lower-cased with '-' replaced by '_', and the entry is the
\* record the context holds for the agent; the sizes of analyses,
\* agents_involved, call_tree and the context are equal.
C27_OneEntryPerAgent ==
    LET involved == results.agents_involved
    IN  /\ DOMAIN results.analyses =
               {Replace(Lower(involved[i]), "-", "_") : i \in 1..Len(involved)}
        /\ \A i \in 1..Len(involved) :
               /\ involved[i] \in DOMAIN context
               /\ results.analyses[Replace(Lower(involved[i]), "-", "_")]
                      = context[involved[i]]
        /\ Cardinality(DOMAIN results.analyses) = Len(involved)
        /\ Len(results.call_tree) = Len(involved)
        /\ Cardinality(DOMAIN context) = Len(involved)

\* three agents have been analysed and the run goes on
C27_Witness ==
    /\ pc = "running"
    /\ Len(results.agents_involved) = 3
    /\ Cardinality(DOMAIN results.analyses) = 3
    /\ \E i \in 1..3 : results.call_tree[i].level > 0

(***************************************************************************)
(* Repeated calls of orchestrate.                                          *)
(***************************************************************************)
\* the agents of the completion requests from..to
RequestedAgents(from, to) == [i \in 1..(to - from + 1) |-> calls[from + i - 1].agent]

\* C28: orchestrate is a deterministic function of the feature request and
\* the sequence of completion replies: the second of two calls on one
\* instance with the same request and the same replies ends as the first
\* did, returns an equal result and has asked the completion service for
\* the same agents in the same order, whatever the first call left behind.
C28_Deterministic ==
    (replay.run = 2 /\ pc \in {"done", "raised"}) =>
        /\ pc = replay.first_pc
        /\ results = replay.first
        /\ RequestedAgents(replay.first_calls + 1, Len(calls))
               = RequestedAgents(1, replay.first_calls)

\* the second call has returned after the first left parsed records in the
\* agents and analysed an agent below an entry agent
C28_Witness ==
    /\ replay.run = 2
    /\ pc = "done"
    /\ \E i \in 1..Len(results.call_tree) : results.call_tree[i].level > 0
    /\ \E name \in DOMAIN agents : analysis_result[name].is_set
    /\ replay.first_calls >= 2

(***************************************************************************)
(* The flag key of the prompt and the flag key of the engine.              *)
(***************************************************************************)
\* C30: for every agent of the registry and every name in its
\* downstream_agents, the key _analyze_recursive reads is the key
\* Agent.analyze and _create_default_analysis guarantee to exist and the
\* prompt asks for; so the engine acts on the downstream agent exactly when
\* the record holds a true flag under the prompted key.
C30_SameFlagKey ==
    /\ pc = "idle" =>
           /\ \A name \in DOMAIN agents : \A i \in 1..Len(agents[name]) :
                  NeedsKeyEngine(agents[name][i]) = NeedsKeyAgent(agents[name][i])
           /\ \A i \in 1..Len(AgentOrder) :
                  NeedsKeyEngine(AgentOrder[i]) = NeedsKeyAgent(AgentOrder[i])
    /\ (stack # <<>> /\ Top.i <= Len(agents[Top.agent_name])) =>
           LET other == agents[Top.agent_name][Top.i]
           IN  /\ NeedsKeyEngine(other) \in DOMAIN Top.analysis.needs
               /\ FlagNeeded(Top)
                      <=> Truthy(GetNeeds(Top.analysis, NeedsKeyAgent(other),
                                          JBool(FALSE)))

\* the engine has just asked for a downstream agent whose flag is true under
\* the prompted key
C30_Witness ==
    /\ pc = "running"
    /\ stack # <<>>
    /\ call # <<>>
    /\ Top.i > 1
    /\ call[1].agent_name = agents[Top.agent_name][Top.i - 1]
    /\ call[1].level = Top.level + 1
    /\ GetNeeds(Top.analysis, NeedsKeyAgent(call[1].agent_name), JNull)
           = JBool(TRUE)

====
